---- MODULE Spec2Model ----
(***************************************************************************)
(* Model of resource_cost_breakdown.py: the per-service cost allocation    *)
(* adapters, the creator resolver, the fallback estimator and the main     *)
(* dispatch loop.                                                          *)
(*                                                                         *)
(* Representation.                                                         *)
(*   - Money is counted in cents and usage in hundredths, so that          *)
(*     round(x, 2) is a rounding to an integer.  round is modelled as      *)
(*     round-half-to-even on the exact quotient.                           *)
(*   - Usage Share % is counted in hundredths of a percent.                *)
(*   - Strings that the code splits or searches are sequences of tokens;   *)
(*     "x in s" is containment of a contiguous subsequence.                *)
(*   - A Python dict is a sequence of <<key, value>> pairs in insertion    *)
(*     order; assigning to an existing key replaces the value in place.    *)
(*   - RAM weights are kept in the unit the inventory reports (MB for      *)
(*     Cloud SQL, half GB for App Engine, hundredths of a GB for Vertex    *)
(*     AI); only the ratio weight / total_weight is ever used.             *)
(***************************************************************************)
EXTENDS Integers, Sequences, FiniteSets, TLC

VARIABLES
    top_skus,     \* the line items returned by get_top_skus
    idx,          \* main: position of the loop in top_skus
    pc,           \* position of the program
    inv,          \* what the inventory / metrics backend answered to the
                  \* adapter call of the line item, kept until its rows
                  \* are joined to their creators
    log,          \* what the audit log answered to the last resolver call
    breakdown,    \* result of the adapter call of the current line item
    creators,     \* result of the last get_resource_creators call
    fallback,     \* result of the last get_fallback call
    all_results,  \* main: the rows accumulated so far
    written,      \* main: the detailed report, once written
    uncaught,     \* the call whose exception reached main, or "none"
    calls,        \* main: per line item, the number of adapter and of
                  \* fallback calls made for it
    cwd,          \* the files of the working directory
    export,       \* the billing export handed to the loader
    run           \* the last run of a script in the working directory

vars == <<top_skus, idx, pc, inv, log, breakdown, creators, fallback,
          all_results, written, uncaught, calls, cwd, export, run>>

(***************************************************************************)
(* Bounds of the model.                                                    *)
(***************************************************************************)
MaxEnt == 3        \* entities in one inventory answer
MaxEp == 2         \* Vertex AI endpoints over all regions
MaxSeries == 2     \* time series in one metrics answer
MaxLog == 3        \* entries in one audit-log answer
MaxNames == 2      \* resource labels handed to the creator resolver
MaxItems == 2      \* main: line items in top_skus
MaxMainEnt == 2    \* main: entities in one inventory answer
MaxMainLog == 1    \* main: entries in one audit-log answer

(***************************************************************************)
(* Generic helpers.                                                        *)
(***************************************************************************)
SeqsUpTo(S, n) == UNION {[1..k -> S] : k \in 0..n}

RECURSIVE SumSeq(_)
SumSeq(s) == IF s = <<>> THEN 0 ELSE Head(s) + SumSeq(Tail(s))

Abs(x) == IF x < 0 THEN -x ELSE x

\* "sub in s" for strings, at token granularity.
Contains(s, sub) ==
    \E i \in 0..(Len(s) - Len(sub)) :
        \A j \in 1..Len(sub) : s[i + j] = sub[j]

\* s.split(sep)[0]
RECURSIVE SplitFirst(_, _)
SplitFirst(s, sep) ==
    IF s = <<>> \/ Head(s) = sep THEN <<>>
    ELSE <<Head(s)>> \o SplitFirst(Tail(s), sep)

\* s.split(sep)[-1]
RECURSIVE SplitLast(_, _)
SplitLast(s, sep) ==
    IF s = <<>> THEN <<>>
    ELSE IF s[Len(s)] = sep THEN <<>>
    ELSE SplitLast(SubSeq(s, 1, Len(s) - 1), sep) \o <<s[Len(s)]>>

\* str.lower() on one token
LowerTok(c) ==
    CASE c = "A" -> "a"
      [] c = "B" -> "b"
      [] c = "vCPU" -> "vcpu"
      [] c = "RAM" -> "ram"
      [] c = "SSD" -> "ssd"
      [] OTHER -> c

Lower(s) == [i \in 1..Len(s) |-> LowerTok(s[i])]

\* round(n / d) to an integer, ties to even (n >= 0, d > 0)
RoundDiv(n, d) ==
    LET q == n \div d
        r == n % d
    IN  IF 2 * r < d THEN q
        ELSE IF 2 * r > d THEN q + 1
        ELSE IF q % 2 = 0 THEN q ELSE q + 1

\* dict[key] = value
DictPut(d, k, v) ==
    IF \E i \in 1..Len(d) : d[i][1] = k
    THEN [i \in 1..Len(d) |-> IF d[i][1] = k THEN <<k, v>> ELSE d[i]]
    ELSE Append(d, <<k, v>>)

DictHas(d, k) == \E i \in 1..Len(d) : d[i][1] = k

DictGet(d, k, default) ==
    IF DictHas(d, k)
    THEN d[CHOOSE i \in 1..Len(d) : d[i][1] = k][2]
    ELSE default

\* sorted(pairs, key=lambda x: x[1], reverse=True) on <<item, key>> pairs:
\* stable, descending (equal keys keep their original order)
RECURSIVE InsertDesc(_, _)
InsertDesc(x, s) ==
    IF s = <<>> THEN <<x>>
    ELSE IF Head(s)[2] >= x[2]
         THEN <<Head(s)>> \o InsertDesc(x, Tail(s))
         ELSE <<x>> \o s

RECURSIVE SortedDesc(_)
SortedDesc(s) ==
    IF s = <<>> THEN <<>>
    ELSE InsertDesc(s[Len(s)], SortedDesc(SubSeq(s, 1, Len(s) - 1)))

\* s.split(sep): the sequence of the pieces of s between separators
RECURSIVE Split(_, _)
Split(s, sep) ==
    IF \A i \in 1..Len(s) : s[i] # sep THEN <<s>>
    ELSE LET k == CHOOSE i \in 1..Len(s) :
                      s[i] = sep /\ \A j \in 1..(i - 1) : s[j] # sep
         IN  <<SubSeq(s, 1, k - 1)>> \o Split(SubSeq(s, k + 1, Len(s)), sep)

\* int(s): the value of a decimal token, or ValueError
ValueError == -1

ParseInt(s) ==
    IF Len(s) # 1 THEN ValueError
    ELSE CASE s[1] = "0" -> 0
           [] s[1] = "1" -> 1
           [] s[1] = "2" -> 2
           [] s[1] = "3" -> 3
           [] s[1] = "4" -> 4
           [] s[1] = "10" -> 10
           [] s[1] = "20" -> 20
           [] s[1] = "3840" -> 3840
           [] s[1] = "7680" -> 7680
           [] OTHER -> ValueError

(***************************************************************************)
(* Results of an adapter call.  "none" is the return value None, "rows" a  *)
(* returned list (possibly empty), "raised" an exception that left the     *)
(* function.  total_weight is the local of that name at the return.        *)
(***************************************************************************)
Absent == "<absent>"

NoData == [kind |-> "none", rows |-> <<>>, total_weight |-> 0]

Raised == [kind |-> "raised", rows |-> <<>>, total_weight |-> 0]

Rows(rs, tw) == [kind |-> "rows", rows |-> rs, total_weight |-> tw]

\* bool(breakdown) in main
Truthy(b) == b.kind = "rows" /\ b.rows # <<>>

\* The row every inventory adapter builds for one entity:
\*   share = weight / total_weight
\*   "Resource Usage": round(total_usage * share, 2)
\*   "Usage Share %":  round(share * 100, 2)
\*   "Actual Cost":    round(total_cost * share, 2)
ShareRow(label, weight, total_weight, total_cost, total_usage, method) ==
    [Resource   |-> label,
     Usage      |-> RoundDiv(total_usage * weight, total_weight),
     SharePct   |-> RoundDiv(10000 * weight, total_weight),
     ActualCost |-> RoundDiv(total_cost * weight, total_weight),
     Method     |-> method,
     CreatedBy  |-> Absent]

\* the result of run_gcloud: None on a non-zero exit, a timeout or
\* unparsable output, else the parsed list
GcloudNone == [ok |-> FALSE, list |-> <<>>]

Gcloud(list) == [ok |-> TRUE, list |-> list]

\* "if not instances" on a run_gcloud result
GcloudFalsy(g) == ~g.ok \/ g.list = <<>>

\* what the gcloud process did: how it ended ("zero", "nonzero" exit, or
\* "timeout"), and its standard output: "empty", "garbage" that json.loads
\* rejects, or the "json" of list
Proc(exit, stdout, list) == [exit |-> exit, stdout |-> stdout, list |-> list]

\* subprocess.run raises on the timeout and json.loads on the garbage: both
\* exceptions are caught
run_gcloud(proc) ==
    IF proc.exit = "timeout" THEN GcloudNone
    ELSE IF proc.exit = "nonzero" THEN GcloudNone
    ELSE IF proc.stdout = "empty" THEN Gcloud(<<>>)
    ELSE IF proc.stdout = "garbage" THEN GcloudNone
    ELSE Gcloud(proc.list)

(***************************************************************************)
(* METHOD 2: Compute Engine VMs                                            *)
(***************************************************************************)
VmIsCpu(sku_name) ==
    \/ Contains(sku_name, <<"Core">>)
    \/ Contains(sku_name, <<"CPU">>)
    \/ Contains(sku_name, <<"Cpu">>)

\* <<cpu, ram_gb>> parsed from the machine type
VmMachine(machine_type) ==
    LET parts == Split(machine_type, "-")
        n == ParseInt(parts[Len(parts)])
    IN  IF Len(parts) >= 3 /\ n # ValueError
        THEN IF Contains(machine_type, <<"highmem">>) THEN <<n, n * 8>>
             ELSE IF Contains(machine_type, <<"highcpu">>)
                  THEN <<n, IF n > 1 THEN n ELSE 1>>
                  ELSE <<n, n * 4>>
        ELSE <<1, 4>>

VmWeight(inst, sku_name) ==
    LET m == VmMachine(SplitLast(inst.machineType, "/"))
    IN  IF VmIsCpu(sku_name) THEN m[1] ELSE m[2]

VmLabel(name, machine_type, zone) ==
    name \o <<" ", "(">> \o machine_type \o <<",", " ">> \o zone \o <<")">>

\* VmScan adding the weight of every instance, whatever its status
RECURSIVE VmScanCountsAll(_, _)
VmScanCountsAll(instances, sku_name) ==
    IF instances = <<>> THEN <<0, <<>>>>
    ELSE LET n == Len(instances)
             prev == VmScanCountsAll(SubSeq(instances, 1, n - 1), sku_name)
             inst == instances[n]
             weight == VmWeight(inst, sku_name)
             info == [weight |-> weight,
                      machine_type |-> SplitLast(inst.machineType, "/"),
                      zone |-> SplitLast(inst.zone, "/"),
                      status |-> inst.status]
         IN  <<prev[1] + weight, DictPut(prev[2], inst.name, info)>>

\* the first loop: <<total_weight, instance_data>> after the instances
RECURSIVE VmScan(_, _)
VmScan(instances, sku_name) ==
    IF instances = <<>> THEN <<0, <<>>>>
    ELSE LET n == Len(instances)
             prev == VmScan(SubSeq(instances, 1, n - 1), sku_name)
             inst == instances[n]
             weight == VmWeight(inst, sku_name)
             info == [weight |-> weight,
                      machine_type |-> SplitLast(inst.machineType, "/"),
                      zone |-> SplitLast(inst.zone, "/"),
                      status |-> inst.status]
         IN  <<IF inst.status = "RUNNING" THEN prev[1] + weight ELSE prev[1],
               DictPut(prev[2], inst.name, info)>>

\* VmRows without the "if info['status'] != 'RUNNING': continue"
RECURSIVE VmRowsAnyStatus(_, _, _, _)
VmRowsAnyStatus(instance_data, total_weight, total_cost, total_usage) ==
    IF instance_data = <<>> THEN <<>>
    ELSE LET name == Head(instance_data)[1]
             info == Head(instance_data)[2]
         IN  <<ShareRow(VmLabel(name, info.machine_type, info.zone),
                        info.weight, total_weight, total_cost, total_usage,
                        "gcloud compute instances list (exact)")>>
             \o VmRowsAnyStatus(Tail(instance_data), total_weight,
                                total_cost, total_usage)

\* the second loop: one row per RUNNING entry of instance_data
RECURSIVE VmRows(_, _, _, _)
VmRows(instance_data, total_weight, total_cost, total_usage) ==
    IF instance_data = <<>> THEN <<>>
    ELSE LET name == Head(instance_data)[1]
             info == Head(instance_data)[2]
             rest == VmRows(Tail(instance_data), total_weight,
                            total_cost, total_usage)
         IN  IF info.status # "RUNNING" THEN rest
             ELSE <<ShareRow(VmLabel(name, info.machine_type, info.zone),
                             info.weight, total_weight, total_cost,
                             total_usage,
                             "gcloud compute instances list (exact)")>>
                  \o rest

get_compute_vm_instances(total_cost, total_usage, sku_name, instances) ==
    IF GcloudFalsy(instances) THEN NoData
    ELSE LET scan == VmScan(instances.list, sku_name)
         IN  IF scan[1] = 0 THEN NoData
             ELSE Rows(VmRows(scan[2], scan[1], total_cost, total_usage),
                       scan[1])

(***************************************************************************)
(* METHOD 2 (disks): Persistent Disks                                      *)
(***************************************************************************)
DiskIsSsd(disk_type) ==
    \/ Contains(Lower(disk_type), <<"ssd">>)
    \/ Contains(Lower(disk_type), <<"pd", "-", "ssd">>)
    \/ Contains(Lower(disk_type), <<"pd", "-", "balanced">>)

DiskLabel(name, size_gb, disk_type, zone) ==
    name \o <<" ", "(">> \o size_gb \o <<"GB", " ">> \o disk_type
         \o <<",", " ">> \o zone \o <<")">>

\* the first loop: <<total_size, disk_data, raised>>; int() of a sizeGb
\* that is not a number raises before the type filter is looked at
RECURSIVE DiskScan(_, _)
DiskScan(disks, sku_name) ==
    IF disks = <<>> THEN <<0, <<>>, FALSE>>
    ELSE LET n == Len(disks)
             prev == DiskScan(SubSeq(disks, 1, n - 1), sku_name)
             disk == disks[n]
             size_gb == ParseInt(disk.sizeGb)
             disk_type == SplitLast(disk.type, "/")
             is_ssd_sku == Contains(sku_name, <<"SSD">>)
             info == [size_gb |-> size_gb, size_str |-> disk.sizeGb,
                      type |-> disk_type,
                      zone |-> SplitLast(disk.zone, "/")]
         IN  IF prev[3] \/ size_gb = ValueError THEN <<0, <<>>, TRUE>>
             ELSE IF is_ssd_sku /\ ~DiskIsSsd(disk_type) THEN prev
             ELSE <<prev[1] + size_gb,
                    DictPut(prev[2], disk.name, info), FALSE>>

RECURSIVE DiskRows(_, _, _, _)
DiskRows(disk_data, total_size, total_cost, total_usage) ==
    IF disk_data = <<>> THEN <<>>
    ELSE LET name == Head(disk_data)[1]
             info == Head(disk_data)[2]
         IN  <<ShareRow(DiskLabel(name, info.size_str, info.type, info.zone),
                        info.size_gb, total_size, total_cost, total_usage,
                        "gcloud compute disks list (exact)")>>
             \o DiskRows(Tail(disk_data), total_size, total_cost, total_usage)

\* sorted(results, key=lambda x: x["Actual Cost"], reverse=True)
SortByActualCost(results) ==
    LET keyed == [i \in 1..Len(results) |->
                     <<results[i], results[i].ActualCost>>]
        sorted == SortedDesc(keyed)
    IN  [i \in 1..Len(sorted) |-> sorted[i][1]]

get_compute_disk_breakdown(total_cost, total_usage, sku_name, disks) ==
    IF GcloudFalsy(disks) THEN NoData
    ELSE LET scan == DiskScan(disks.list, sku_name)
         IN  IF scan[3] THEN Raised
             ELSE IF scan[1] = 0 THEN NoData
             ELSE Rows(SortByActualCost(
                           DiskRows(scan[2], scan[1], total_cost,
                                    total_usage)),
                       scan[1])

\* the SKU test at the head of get_compute_vm_breakdown
IsDiskSku(sku_name) ==
    \/ Contains(sku_name, <<"PD", "Capacity">>)
    \/ Contains(sku_name, <<"Persistent", "Disk">>)
    \/ Contains(sku_name, <<"SSD", "backed">>)

get_compute_vm_breakdown(total_cost, total_usage, sku_name, gcloud) ==
    IF IsDiskSku(sku_name)
    THEN get_compute_disk_breakdown(total_cost, total_usage, sku_name, gcloud)
    ELSE get_compute_vm_instances(total_cost, total_usage, sku_name, gcloud)

(***************************************************************************)
(* METHOD 1: Cloud SQL                                                     *)
(***************************************************************************)
\* A key of a JSON record that may be missing holds Missing or Some(value);
\* Get is dict.get(key, default)
Missing == <<>>

Some(value) == <<value>>

Get(opt, default) == IF opt = Missing THEN default ELSE opt[1]

SqlIsCpu(sku_name) ==
    \/ Contains(sku_name, <<"vCPU">>)
    \/ Contains(Lower(sku_name), <<"vcpu">>)

\* <<cpu, ram_mb>> parsed from the tier
SqlTier(tier) ==
    LET parts == Split(tier, "-")
    IN  IF Contains(tier, <<"custom">>) /\ Len(parts) >= 3
        THEN LET c == ParseInt(parts[3])
                 r == IF Len(parts) > 3 THEN ParseInt(parts[4]) ELSE 3840
             IN  IF c = ValueError THEN <<1, 3840>>
                 ELSE IF r = ValueError THEN <<c, 3840>>
                 ELSE <<c, r>>
        ELSE <<1, 3840>>

\* cpu, or ram_mb / 1024 counted in MB
SqlWeight(inst, sku_name) ==
    LET t == SqlTier(inst.tier)
    IN  IF SqlIsCpu(sku_name) THEN t[1] ELSE t[2]

SqlLabel(name, tier, region) ==
    name \o <<" ", "(">> \o tier \o <<",", " ">> \o region \o <<")">>

RECURSIVE SqlScan(_, _)
SqlScan(instances, sku_name) ==
    IF instances = <<>> THEN <<0, <<>>>>
    ELSE LET n == Len(instances)
             prev == SqlScan(SubSeq(instances, 1, n - 1), sku_name)
             inst == instances[n]
             state == Get(inst.state, "RUNNABLE")
             weight == SqlWeight(inst, sku_name)
             info == [weight |-> weight, tier |-> inst.tier,
                      region |-> inst.region, state |-> state]
         IN  <<IF state = "RUNNABLE" THEN prev[1] + weight ELSE prev[1],
               DictPut(prev[2], inst.name, info)>>

RECURSIVE SqlRows(_, _, _, _)
SqlRows(instance_weights, total_weight, total_cost, total_usage) ==
    IF instance_weights = <<>> THEN <<>>
    ELSE LET name == Head(instance_weights)[1]
             info == Head(instance_weights)[2]
             rest == SqlRows(Tail(instance_weights), total_weight,
                             total_cost, total_usage)
         IN  IF info.state # "RUNNABLE" THEN rest
             ELSE <<ShareRow(SqlLabel(name, info.tier, info.region),
                             info.weight, total_weight, total_cost,
                             total_usage,
                             "gcloud sql instances list (exact)")>>
                  \o rest

get_cloudsql_breakdown(total_cost, total_usage, sku_name, instances) ==
    IF GcloudFalsy(instances) THEN NoData
    ELSE LET scan == SqlScan(instances.list, sku_name)
         IN  IF scan[1] = 0 THEN NoData
             ELSE Rows(SqlRows(scan[2], scan[1], total_cost, total_usage),
                       scan[1])

(***************************************************************************)
(* METHOD 3: App Engine Flex.  A version of the list carries the result    *)
(* of its own "versions describe" call in the field detail.                *)
(***************************************************************************)
AeIsCpu(sku_name) ==
    \/ Contains(sku_name, <<"Core">>)
    \/ Contains(sku_name, <<"CPU">>)
    \/ Contains(sku_name, <<"Cpu">>)

\* memory_gb is counted in half GB
AeLabel(name, cpu, mem2) ==
    name \o <<" ", "(", ToString(cpu), " ", "CPU", ",", " ",
              ToString(mem2), "/2", "GB", " ", "RAM", ")">>

\* the filter to Flex versions
AeFlex(versions) == SelectSeq(versions, LAMBDA v : v.flex)

\* AeScan where a failed describe call ends the adapter with nothing
RECURSIVE AeScanFailedDescribeDropsAll(_, _)
AeScanFailedDescribeDropsAll(flex_versions, sku_name) ==
    IF flex_versions = <<>> THEN <<0, <<>>>>
    ELSE LET n == Len(flex_versions)
             prev == AeScanFailedDescribeDropsAll(
                         SubSeq(flex_versions, 1, n - 1), sku_name)
             v == flex_versions[n]
             detail == v.detail
             status == Get(detail.servingStatus, "STOPPED")
             cpu == Get(detail.cpu, 1)
             mem2 == Get(detail.memoryGb2, 1)
             name == v.service \o <<"/">> \o v.id
             weight == IF AeIsCpu(sku_name) THEN cpu ELSE mem2
         IN  IF \E i \in 1..n : ~flex_versions[i].detail.ok THEN <<0, <<>>>>
             ELSE IF status # "SERVING" THEN prev
             ELSE <<prev[1] + weight,
                    DictPut(prev[2], name,
                            [weight |-> weight, cpu |-> cpu, mem2 |-> mem2])>>

RECURSIVE AeScan(_, _)
AeScan(flex_versions, sku_name) ==
    IF flex_versions = <<>> THEN <<0, <<>>>>
    ELSE LET n == Len(flex_versions)
             prev == AeScan(SubSeq(flex_versions, 1, n - 1), sku_name)
             v == flex_versions[n]
             detail == v.detail
             status == Get(detail.servingStatus, "STOPPED")
             cpu == Get(detail.cpu, 1)
             mem2 == Get(detail.memoryGb2, 1)
             name == v.service \o <<"/">> \o v.id
             weight == IF AeIsCpu(sku_name) THEN cpu ELSE mem2
         IN  IF ~detail.ok THEN prev
             ELSE IF status # "SERVING" THEN prev
             ELSE <<prev[1] + weight,
                    DictPut(prev[2], name,
                            [weight |-> weight, cpu |-> cpu, mem2 |-> mem2])>>

RECURSIVE AeRows(_, _, _, _)
AeRows(version_data, total_weight, total_cost, total_usage) ==
    IF version_data = <<>> THEN <<>>
    ELSE LET name == Head(version_data)[1]
             info == Head(version_data)[2]
         IN  <<ShareRow(AeLabel(name, info.cpu, info.mem2), info.weight,
                        total_weight, total_cost, total_usage,
                        "gcloud app versions describe (exact)")>>
             \o AeRows(Tail(version_data), total_weight, total_cost,
                       total_usage)

get_appengine_breakdown(total_cost, total_usage, sku_name, versions) ==
    IF GcloudFalsy(versions) THEN NoData
    ELSE IF AeFlex(versions.list) = <<>> THEN NoData
    ELSE LET scan == AeScan(AeFlex(versions.list), sku_name)
         IN  IF scan[1] = 0 THEN NoData
             ELSE Rows(AeRows(scan[2], scan[1], total_cost, total_usage),
                       scan[1])

(***************************************************************************)
(* METHOD 4: Cloud Run.  The metrics environment is                        *)
(*   client_ok : MetricServiceClient() succeeds (it is built outside try)  *)
(*   query_ok  : list_time_series and its iteration succeed (inside try)   *)
(*   series    : the time series returned, each with a name and points     *)
(***************************************************************************)
\* sum(p.value.double_value or p.value.int64_value for p in ts.points)
RECURSIVE SumValues(_)
SumValues(points) ==
    IF points = <<>> THEN 0 ELSE Head(points).v + SumValues(Tail(points))

\* the loop over the series: usage_by[name] += total_val when total_val > 0;
\* totals[i] is <<name, total_val>> of the i-th series
RECURSIVE UsageAdd(_, _)
UsageAdd(usage_by, totals) ==
    IF totals = <<>> THEN usage_by
    ELSE LET n == Len(totals)
             prev == UsageAdd(usage_by, SubSeq(totals, 1, n - 1))
             name == totals[n][1]
             total_val == totals[n][2]
         IN  IF total_val > 0
             THEN DictPut(prev, name, DictGet(prev, name, 0) + total_val)
             ELSE prev

\* sum(usage_by_service.values())
RECURSIVE SumUsage(_)
SumUsage(usage_by) ==
    IF usage_by = <<>> THEN 0 ELSE Head(usage_by)[2] + SumUsage(Tail(usage_by))

\* the row of a time-series adapter; Resource Usage is round(usage, 2),
\* the metric total of the group
MetricRow(name, usage, total_monitored, total_cost, method) ==
    [Resource   |-> name,
     Usage      |-> 100 * usage,
     SharePct   |-> IF total_monitored > 0
                    THEN RoundDiv(10000 * usage, total_monitored) ELSE 0,
     ActualCost |-> IF total_monitored > 0
                    THEN RoundDiv(total_cost * usage, total_monitored) ELSE 0,
     Method     |-> method,
     CreatedBy  |-> Absent]

MetricRows(usage_by, total_cost, method) ==
    LET sorted == SortedDesc(usage_by)
        total_monitored == SumUsage(usage_by)
    IN  [i \in 1..Len(sorted) |->
            MetricRow(sorted[i][1], sorted[i][2], total_monitored,
                      total_cost, method)]

get_cloudrun_breakdown(total_cost, total_usage, sku_name, env) ==
    IF ~env.client_ok THEN Raised
    ELSE IF ~env.query_ok THEN NoData
    ELSE LET usage_by_service ==
                 UsageAdd(<<>>, [i \in 1..Len(env.series) |->
                     <<env.series[i].name, SumValues(env.series[i].points)>>])
         IN  IF usage_by_service = <<>> THEN NoData
             ELSE Rows(MetricRows(usage_by_service, total_cost,
                          "Cloud Monitoring: billable_instance_time (accurate)"),
                       SumUsage(usage_by_service))

(***************************************************************************)
(* METHOD 5: Cloud Run Functions                                           *)
(***************************************************************************)
\* sum(<double or int64 or mean * count> if <count > 0> else 0 ...): the
\* conditional expression binds weaker than "or"
RECURSIVE SumTimes(_)
SumTimes(points) ==
    IF points = <<>> THEN 0
    ELSE LET p == Head(points)
         IN  (IF p.count > 0
              THEN (IF p.v # 0 THEN p.v ELSE p.mean * p.count)
              ELSE 0) + SumTimes(Tail(points))

\* get_cloudfunctions_breakdown adding the execution counts to the
\* execution times in every call
CloudFunctionsBothMetrics(total_cost, total_usage, sku_name, env) ==
    IF ~env.client_ok THEN Raised
    ELSE IF ~env.query_ok THEN NoData
    ELSE LET by_times ==
                 UsageAdd(<<>>, [i \in 1..Len(env.series) |->
                     <<env.series[i].name, SumTimes(env.series[i].points)>>])
             usage_by_fn ==
                 UsageAdd(by_times, [i \in 1..Len(env.series2) |->
                     <<env.series2[i].name,
                       SumValues(env.series2[i].points)>>])
         IN  IF usage_by_fn = <<>> THEN NoData
             ELSE Rows(MetricRows(usage_by_fn, total_cost,
                          "Cloud Monitoring: execution_count (accurate)"),
                       SumUsage(usage_by_fn))

get_cloudfunctions_breakdown(total_cost, total_usage, sku_name, env) ==
    IF ~env.client_ok THEN Raised
    ELSE IF ~env.query_ok THEN NoData
    ELSE LET by_times ==
                 UsageAdd(<<>>, [i \in 1..Len(env.series) |->
                     <<env.series[i].name, SumTimes(env.series[i].points)>>])
             usage_by_fn ==
                 IF by_times = <<>>
                 THEN UsageAdd(by_times, [i \in 1..Len(env.series2) |->
                          <<env.series2[i].name,
                            SumValues(env.series2[i].points)>>])
                 ELSE by_times
         IN  IF by_times = <<>> /\ ~env.query2_ok THEN NoData
             ELSE IF usage_by_fn = <<>> THEN NoData
             ELSE Rows(MetricRows(usage_by_fn, total_cost,
                          "Cloud Monitoring: execution_count (accurate)"),
                       SumUsage(usage_by_fn))

(***************************************************************************)
(* METHOD 6: Vertex AI                                                     *)
(***************************************************************************)
VertexRegions == <<"us-central1", "us-east1", "us-west1", "europe-west1">>

\* N1_CPU_MAP.get(machine_type, 2)
N1Cpu(machine_type) ==
    CASE machine_type = "n1-standard-1" -> 1
      [] machine_type = "n1-standard-2" -> 2
      [] machine_type = "n1-standard-4" -> 4
      [] machine_type = "n1-standard-8" -> 8
      [] machine_type = "n1-standard-16" -> 16
      [] machine_type = "n1-standard-32" -> 32
      [] machine_type = "n1-standard-64" -> 64
      [] machine_type = "n1-standard-96" -> 96
      [] machine_type = "n1-highmem-2" -> 2
      [] machine_type = "n1-highmem-4" -> 4
      [] machine_type = "n1-highmem-8" -> 8
      [] machine_type = "n1-highmem-16" -> 16
      [] machine_type = "n1-highmem-32" -> 32
      [] machine_type = "n1-highmem-64" -> 64
      [] machine_type = "n1-highcpu-2" -> 2
      [] machine_type = "n1-highcpu-4" -> 4
      [] machine_type = "n1-highcpu-8" -> 8
      [] machine_type = "n1-highcpu-16" -> 16
      [] machine_type = "n1-highcpu-32" -> 32
      [] machine_type = "n1-highcpu-64" -> 64
      [] OTHER -> 2

\* N1_RAM_MAP.get(machine_type, 7.5), in hundredths of a GB
N1Ram(machine_type) ==
    CASE machine_type = "n1-standard-1" -> 375
      [] machine_type = "n1-standard-2" -> 750
      [] machine_type = "n1-standard-4" -> 1500
      [] machine_type = "n1-standard-8" -> 3000
      [] machine_type = "n1-standard-16" -> 6000
      [] machine_type = "n1-standard-32" -> 12000
      [] machine_type = "n1-standard-64" -> 24000
      [] machine_type = "n1-standard-96" -> 36000
      [] machine_type = "n1-highmem-2" -> 1300
      [] machine_type = "n1-highmem-4" -> 2600
      [] machine_type = "n1-highmem-8" -> 5200
      [] machine_type = "n1-highmem-16" -> 10400
      [] machine_type = "n1-highmem-32" -> 20800
      [] machine_type = "n1-highmem-64" -> 41600
      [] machine_type = "n1-highcpu-2" -> 180
      [] machine_type = "n1-highcpu-4" -> 360
      [] machine_type = "n1-highcpu-8" -> 720
      [] machine_type = "n1-highcpu-16" -> 1440
      [] machine_type = "n1-highcpu-32" -> 2880
      [] machine_type = "n1-highcpu-64" -> 5760
      [] OTHER -> 750

VertexIsCpu(sku_name) ==
    Contains(sku_name, <<"Core">>) \/ Contains(sku_name, <<"CPU">>)

\* all_endpoints: the lists of the regions that answered, each endpoint
\* tagged with its region
RECURSIVE VertexAll(_, _)
VertexAll(env, r) ==
    IF r > Len(VertexRegions) THEN <<>>
    ELSE (IF GcloudFalsy(env[r]) THEN <<>>
          ELSE [i \in 1..Len(env[r].list) |->
                   [ep |-> env[r].list[i], region |-> VertexRegions[r]]])
         \o VertexAll(env, r + 1)

\* VertexEpWeight counting every deployed model as one replica
RECURSIVE VertexEpWeightOneReplica(_, _)
VertexEpWeightOneReplica(deployed_models, sku_name) ==
    IF deployed_models = <<>> THEN 0
    ELSE LET model == Head(deployed_models)
             machine_type == Get(model.machineType, "n1-standard-2")
             per_machine == IF VertexIsCpu(sku_name)
                            THEN N1Cpu(machine_type) ELSE N1Ram(machine_type)
         IN  per_machine
             + VertexEpWeightOneReplica(Tail(deployed_models), sku_name)

\* ep_weight of one endpoint
RECURSIVE VertexEpWeight(_, _)
VertexEpWeight(deployed_models, sku_name) ==
    IF deployed_models = <<>> THEN 0
    ELSE LET model == Head(deployed_models)
             machine_type == Get(model.machineType, "n1-standard-2")
             min_replicas == Get(model.minReplicaCount, 1)
             per_machine == IF VertexIsCpu(sku_name)
                            THEN N1Cpu(machine_type) ELSE N1Ram(machine_type)
         IN  min_replicas * per_machine
             + VertexEpWeight(Tail(deployed_models), sku_name)

\* ', '.join(ep_details)
RECURSIVE VertexDetails(_)
VertexDetails(deployed_models) ==
    IF deployed_models = <<>> THEN <<>>
    ELSE LET model == Head(deployed_models)
         IN  <<Get(model.machineType, "n1-standard-2"), "x",
               ToString(Get(model.minReplicaCount, 1))>>
             \o (IF Tail(deployed_models) = <<>> THEN <<>> ELSE <<",", " ">>)
             \o VertexDetails(Tail(deployed_models))

VertexKey(display_name, deployed_models, region) ==
    display_name \o <<" ", "(">> \o VertexDetails(deployed_models)
                 \o <<",", " ", region, ")">>

RECURSIVE VertexScan(_, _)
VertexScan(all_endpoints, sku_name) ==
    IF all_endpoints = <<>> THEN <<0, <<>>>>
    ELSE LET n == Len(all_endpoints)
             prev == VertexScan(SubSeq(all_endpoints, 1, n - 1), sku_name)
             ep == all_endpoints[n].ep
             ep_weight == VertexEpWeight(ep.deployedModels, sku_name)
             key == VertexKey(ep.displayName, ep.deployedModels,
                              all_endpoints[n].region)
         IN  IF ep.deployedModels = <<>> THEN prev
             ELSE IF ep_weight > 0
                  THEN <<prev[1] + ep_weight,
                         DictPut(prev[2], key, [weight |-> ep_weight])>>
                  ELSE prev

\* sorted(endpoint_data.items(), key=lambda x: x[1]["weight"], reverse=True)
VertexRows(endpoint_data, total_weight, total_cost, total_usage) ==
    LET keyed == [i \in 1..Len(endpoint_data) |->
                     <<endpoint_data[i], endpoint_data[i][2].weight>>]
        sorted == SortedDesc(keyed)
    IN  [i \in 1..Len(sorted) |->
            ShareRow(sorted[i][1][1], sorted[i][1][2].weight, total_weight,
                     total_cost, total_usage,
                     "gcloud ai endpoints list (exact: machine_type x replicas)")]

get_vertexai_breakdown(total_cost, total_usage, sku_name, env) ==
    LET all_endpoints == VertexAll(env, 1)
    IN  IF all_endpoints = <<>> THEN NoData
        ELSE LET scan == VertexScan(all_endpoints, sku_name)
             IN  IF scan[1] = 0 THEN NoData
                 ELSE Rows(VertexRows(scan[2], scan[1], total_cost,
                                      total_usage),
                           scan[1])

(***************************************************************************)
(* Audit log.  The environment of a resolver call is                       *)
(*   client_ok : cloud_logging.Client() succeeds (it is built outside try) *)
(*   query_ok  : list_entries and its iteration succeed (inside try)       *)
(*   entries   : the entries returned; payload_ok is "if not payload"      *)
(***************************************************************************)
\* config.SERVICE_MAPPING.get(service_name) is not None
HasApiMapping(service_name) ==
    service_name \in {"Cloud Run", "Cloud SQL", "Vertex AI", "App Engine",
                      "Compute Engine", "Cloud Run Functions",
                      "Cloud Workstations", "Notebooks", "Cloud Spanner",
                      "Kubernetes Engine", "Integration Connectors",
                      "Gemini API", "Networking", "Artifact Registry",
                      "Cloud Monitoring", "Secret Manager", "BigQuery",
                      "Cloud Storage", "Dataplex", "Cloud DNS", "Cloud Build",
                      "Firebase App Hosting", "Cloud Pub/Sub", "VM Manager",
                      "Cloud Logging"}

\* rname.split(" ")[0].split("/")[-1]
CheckName(rname) == SplitLast(SplitFirst(rname, " "), "/")

\* Matches without the two lower()
MatchesCaseSensitive(rname, resource_full) ==
    Contains(resource_full, CheckName(rname))

\* check_name.lower() in resource_full.lower()
Matches(rname, resource_full) ==
    Contains(Lower(resource_full), Lower(CheckName(rname)))

\* CreatorsEntry without the "if rname not in creators": the last match wins
RECURSIVE CreatorsEntryLastWins(_, _, _)
CreatorsEntryLastWins(found, entry, resource_names) ==
    IF resource_names = <<>> THEN found
    ELSE LET n == Len(resource_names)
             prev == CreatorsEntryLastWins(found, entry,
                                           SubSeq(resource_names, 1, n - 1))
             rname == resource_names[n]
         IN  IF Matches(rname, Get(entry.resourceName, <<>>))
             THEN DictPut(prev, rname, Get(entry.principalEmail, "Unknown"))
             ELSE prev

\* the inner loop over resource_names for one entry
RECURSIVE CreatorsEntry(_, _, _)
CreatorsEntry(found, entry, resource_names) ==
    IF resource_names = <<>> THEN found
    ELSE LET n == Len(resource_names)
             prev == CreatorsEntry(found, entry,
                                   SubSeq(resource_names, 1, n - 1))
             rname == resource_names[n]
         IN  IF Matches(rname, Get(entry.resourceName, <<>>))
                /\ ~DictHas(prev, rname)
             THEN DictPut(prev, rname, Get(entry.principalEmail, "Unknown"))
             ELSE prev

\* the outer loop over the entries
RECURSIVE CreatorsScan(_, _)
CreatorsScan(entries, resource_names) ==
    IF entries = <<>> THEN <<>>
    ELSE LET n == Len(entries)
             prev == CreatorsScan(SubSeq(entries, 1, n - 1), resource_names)
         IN  IF ~entries[n].payload_ok THEN prev
             ELSE CreatorsEntry(prev, entries[n], resource_names)

\* returns [kind |-> "dict" | "raised", creators]; an exception of the query
\* keeps the creators found so far (none: the query fails as a whole)
get_resource_creators(service_name, resource_names, env) ==
    IF ~HasApiMapping(service_name)
    THEN [kind |-> "dict", creators |-> <<>>]
    ELSE IF ~env.client_ok THEN [kind |-> "raised", creators |-> <<>>]
    ELSE IF ~env.query_ok THEN [kind |-> "dict", creators |-> <<>>]
    ELSE [kind |-> "dict",
          creators |-> CreatorsScan(env.entries, resource_names)]

(***************************************************************************)
(* Fallback: proportional estimate from the audit log                      *)
(***************************************************************************)
\* creator_resources after the loop: creator -> set of resource names
RECURSIVE FallbackScan(_)
FallbackScan(entries) ==
    IF entries = <<>> THEN <<>>
    ELSE LET n == Len(entries)
             prev == FallbackScan(SubSeq(entries, 1, n - 1))
             creator == Get(entries[n].principalEmail, "Unknown")
             resource == Get(entries[n].resourceName, <<"Unknown">>)
         IN  IF ~entries[n].payload_ok THEN prev
             ELSE DictPut(prev, creator,
                          DictGet(prev, creator, {}) \cup {resource})

\* FallbackTotal counting the creators instead of their resources
FallbackTotalCreators(creator_resources) == Len(creator_resources)

\* sum(len(v) for v in creator_resources.values())
RECURSIVE FallbackTotal(_)
FallbackTotal(creator_resources) ==
    IF creator_resources = <<>> THEN 0
    ELSE Cardinality(Head(creator_resources)[2])
         + FallbackTotal(Tail(creator_resources))

FallbackRows(creator_resources, total_cost) ==
    LET total_res == FallbackTotal(creator_resources)
    IN  [i \in 1..Len(creator_resources) |->
            LET n == Cardinality(creator_resources[i][2])
            IN  [Resource   |-> <<ToString(n), " ", "resources">>,
                 Usage      |-> 100 * n,
                 SharePct   |-> IF total_res > 0
                                THEN RoundDiv(10000 * n, total_res) ELSE 0,
                 ActualCost |-> IF total_res > 0
                                THEN RoundDiv(total_cost * n, total_res) ELSE 0,
                 Method     |-> "Proportional Estimate (fallback)",
                 CreatedBy  |-> creator_resources[i][1]]]

\* returns [kind |-> "rows" | "raised", rows]
get_fallback(service_name, total_cost, env) ==
    IF ~HasApiMapping(service_name) THEN [kind |-> "rows", rows |-> <<>>]
    ELSE IF ~env.client_ok THEN [kind |-> "raised", rows |-> <<>>]
    ELSE IF ~env.query_ok THEN [kind |-> "rows", rows |-> <<>>]
    ELSE LET creator_resources == FallbackScan(env.entries)
         IN  IF creator_resources = <<>> THEN [kind |-> "rows", rows |-> <<>>]
             ELSE [kind |-> "rows",
                   rows |-> SortByActualCost(
                                FallbackRows(creator_resources, total_cost))]

(***************************************************************************)
(* Inputs.                                                                 *)
(***************************************************************************)
Names == {<<"a">>, <<"b">>}

LineItem(service, sku, amounts) ==
    [service |-> service, sku |-> sku, cost |-> amounts[1],
     usage |-> amounts[2]]

\* <<cost in cents, usage in hundredths>>
Amounts == {<<10000, 10000>>, <<1, 50>>}

SkusOf(service) ==
    CASE service = "Cloud SQL" ->
             {<<"Zonal", "vCPU">>, <<"Zonal", "RAM">>}
      [] service = "Compute Engine" ->
             {<<"N2", "Instance", "Core">>, <<"N2", "Instance", "Ram">>,
              <<"SSD", "backed", "PD", "Capacity">>,
              <<"Storage", "PD", "Capacity">>}
      [] service = "App Engine" ->
             {<<"Flex", "Instance", "Core">>, <<"Flex", "Instance", "RAM">>}
      [] service = "Cloud Run" -> {<<"CPU", "Allocation", "Time">>}
      [] service = "Cloud Run Functions" -> {<<"CPU", "Time">>}
      [] service = "Vertex AI" ->
             {<<"Online", "Prediction", "Core">>,
              <<"Online", "Prediction", "Ram">>}
      [] OTHER -> {<<"Usage">>}

\* the keys of SERVICE_METHOD_MAP
AdapterServices ==
    {"Cloud SQL", "Compute Engine", "App Engine", "Cloud Run",
     "Cloud Run Functions", "Vertex AI"}

\* a service with an API mapping but no adapter, and one with neither
OtherServices == {"BigQuery", "Other Service"}

ItemsOf(services) ==
    UNION {{LineItem(sv, sku, am) : sku \in SkusOf(sv), am \in Amounts} :
           sv \in services}

\* the gcloud processes that fail
FailedProcs ==
    {Proc("timeout", "empty", <<>>), Proc("nonzero", "empty", <<>>),
     Proc("nonzero", "garbage", <<>>), Proc("zero", "garbage", <<>>)}

\* the gcloud processes: the failing ones, one that prints nothing, and
\* those that print a list of at most n entities
Procs(entities, n) ==
    FailedProcs \cup {Proc("zero", "empty", <<>>)}
    \cup {Proc("zero", "json", l) : l \in SeqsUpTo(entities, n)}

\* the answers of run_gcloud: None, or a list of at most n entities
GcloudAnswers(entities, n) == {run_gcloud(p) : p \in Procs(entities, n)}

\* an inventory lists every resource once: Cloud SQL instance names are
\* unique in a project, VM and disk names in a zone, version ids in a service
UniqueSql(g) ==
    \A i, j \in 1..Len(g.list) : i # j => g.list[i].name # g.list[j].name

UniqueZonal(g) ==
    \A i, j \in 1..Len(g.list) :
        i # j => <<g.list[i].name, g.list[i].zone>>
                 # <<g.list[j].name, g.list[j].zone>>

UniqueVersion(g) ==
    \A i, j \in 1..Len(g.list) : i # j => g.list[i].id # g.list[j].id

\* a metrics answer grouped by name has one series per name
UniqueSeries(series) ==
    \A i, j \in 1..Len(series) : i # j => series[i].name # series[j].name

Zones == {<<"zones", "/", "z1">>, <<"zones", "/", "z2">>}

VmInstances(machine_types, zones) ==
    [name : Names, status : {"RUNNING", "TERMINATED"}, zone : zones,
     machineType : machine_types]

VmMachineTypes ==
    {<<"n2", "-", "standard", "-", "2">>, <<"n2", "-", "highmem", "-", "3">>,
     <<"e2", "-", "medium">>}

DiskTypes ==
    {<<"types", "/", "pd", "-", "ssd">>, <<"types", "/", "pd", "-", "standard">>}

Disks(sizes, types, zones) ==
    [name : Names, sizeGb : sizes, type : types, zone : zones]

DiskSizes == {<<"10">>, <<"20">>, <<"0">>, <<"ten">>}

SqlInstances(tiers, states) ==
    [name : Names, tier : tiers, region : {<<"r1">>}, state : states]

SqlTiers ==
    {<<"db", "-", "custom", "-", "2", "-", "7680">>,
     <<"db", "-", "custom", "-", "1", "-", "3840">>,
     <<"db", "-", "f1", "-", "micro">>}

SqlStates == {Some("RUNNABLE"), Some("SUSPENDED"), Missing}

AeDetail(ok, status, cpu, mem2) ==
    [ok |-> ok, servingStatus |-> status, cpu |-> cpu, memoryGb2 |-> mem2]

AeDetails ==
    {AeDetail(FALSE, Missing, Missing, Missing),
     AeDetail(TRUE, Some("SERVING"), Some(2), Some(3)),
     AeDetail(TRUE, Some("SERVING"), Missing, Missing),
     AeDetail(TRUE, Some("STOPPED"), Some(2), Some(3)),
     AeDetail(TRUE, Missing, Some(2), Some(3))}

AeVersions(details, flex) ==
    [service : {<<"default">>}, id : Names, flex : flex, detail : details]

Point(v, count, mean) == [v |-> v, count |-> count, mean |-> mean]

PointLists ==
    {<<>>, <<Point(3, 0, 0)>>, <<Point(0, 2, 1)>>,
     <<Point(2, 1, 2), Point(1, 0, 0)>>}

SeriesSet(point_lists) == [name : Names, points : point_lists]

MetricsEnv(client_ok, query_ok, series, query2_ok, series2) ==
    [client_ok |-> client_ok, query_ok |-> query_ok, series |-> series,
     query2_ok |-> query2_ok, series2 |-> series2]

\* the answers to the one query of the Cloud Run adapter
RunEnvs(series_set, n) ==
    {MetricsEnv(FALSE, FALSE, <<>>, FALSE, <<>>),
     MetricsEnv(TRUE, FALSE, <<>>, FALSE, <<>>)}
    \cup {MetricsEnv(TRUE, TRUE, s, FALSE, <<>>) :
              s \in {q \in SeqsUpTo(series_set, n) : UniqueSeries(q)}}

\* the answers to the two queries of the Cloud Run Functions adapter
FnEnvs(series_set, n) ==
    RunEnvs(series_set, n)
    \cup {MetricsEnv(TRUE, TRUE, s, TRUE, s2) :
              s \in {q \in SeqsUpTo(series_set, n) : UniqueSeries(q)},
              s2 \in {q \in SeqsUpTo(series_set, n) : UniqueSeries(q)}}

VertexModels ==
    {[machineType |-> Some("n1-standard-4"), minReplicaCount |-> Some(1)],
     [machineType |-> Some("a2-highgpu-1g"), minReplicaCount |-> Some(2)],
     [machineType |-> Missing, minReplicaCount |-> Some(0)]}

\* an endpoint has no model, one model, or the two models of TwoModels
TwoModels ==
    <<[machineType |-> Some("n1-standard-4"), minReplicaCount |-> Some(1)],
      [machineType |-> Some("a2-highgpu-1g"), minReplicaCount |-> Some(2)]>>

VertexEndpoints(models) ==
    [displayName : Names,
     deployedModels : SeqsUpTo(models, 1)
                      \cup {d \in {TwoModels} :
                                \A i \in 1..Len(d) : d[i] \in models}]

\* one run_gcloud answer per region, with at most n endpoints in all:
\* placed lists the endpoints by region, failed the regions answering None
VertexEnv(placed, failed) ==
    [r \in 1..Len(VertexRegions) |->
        IF r \in failed THEN GcloudNone
        ELSE LET mine == SelectSeq(placed, LAMBDA x : x[1] = r)
             IN  Gcloud([i \in 1..Len(mine) |-> mine[i][2]])]

VertexEnvs(endpoints, regions, n) ==
    {VertexEnv(placed, failed) :
        placed \in {q \in SeqsUpTo(regions \X endpoints, n) :
                       \A i \in 1..(Len(q) - 1) : q[i][1] <= q[i + 1][1]},
        failed \in SUBSET regions}

Entry(payload_ok, resourceName, principalEmail) ==
    [payload_ok |-> payload_ok, resourceName |-> resourceName,
     principalEmail |-> principalEmail]

ResourceNames ==
    {<<"instances", "/", "a">>, <<"instances", "/", "a", "b">>,
     <<"instances", "/", "B">>}

LogEntries ==
    {Entry(FALSE, Missing, Missing)}
    \cup {Entry(TRUE, Some(r), Some(c)) :
              r \in ResourceNames, c \in {"alice", "bob"}}
    \cup {Entry(TRUE, Missing, Missing)}

LogEnv(client_ok, query_ok, entries) ==
    [client_ok |-> client_ok, query_ok |-> query_ok, entries |-> entries]

LogEnvs(entries, n) ==
    {LogEnv(FALSE, FALSE, <<>>), LogEnv(TRUE, FALSE, <<>>)}
    \cup {LogEnv(TRUE, TRUE, l) : l \in SeqsUpTo(entries, n)}

\* resource labels as the adapters build them: a name, then details
Labels ==
    {<<"a", " ", "(", "x", ")">>, <<"a", "b">>,
     <<"default", "/", "b", " ", "(", "x", ")">>}

\* no backend was asked
NoInv ==
    [ok |-> FALSE, list |-> <<>>, client_ok |-> FALSE, query_ok |-> FALSE,
     series |-> <<>>]

NoLog == LogEnv(TRUE, TRUE, <<>>)

NoCreators == [kind |-> "dict", creators |-> <<>>]

NoFallback == [kind |-> "rows", rows |-> <<>>]

NotWritten == [done |-> FALSE, rows |-> <<>>, persons |-> <<>>]

\* no billing export was read
NoExport == [columns |-> {}, rows |-> <<>>]

\* no script has run
NoRun == [script |-> "none", csv_path |-> <<>>, error |-> "none",
          wrote |-> {}]

(***************************************************************************)
(* The adapters as functions: one call of one adapter on one line item.    *)
(***************************************************************************)
InitAdapters ==
    /\ top_skus \in {<<li>> : li \in ItemsOf(AdapterServices)}
    /\ idx = 1
    /\ pc = "call"
    /\ inv = NoInv
    /\ log = NoLog
    /\ breakdown = NoData
    /\ creators = NoCreators
    /\ fallback = NoFallback
    /\ all_results = <<>>
    /\ written = NotWritten
    /\ uncaught = "none"
    /\ calls = <<>>
    /\ cwd = {}
    /\ export = NoExport
    /\ run = NoRun

\* the adapter of service is the one to call
Calling(service) == pc = "call" /\ top_skus[idx].service = service

\* the adapter returns result on the answer env
Returned(env, result) ==
    /\ inv' = env
    /\ breakdown' = result
    /\ pc' = "returned"
    /\ UNCHANGED <<top_skus, idx, log, creators, fallback, all_results,
                   written, uncaught, calls, cwd, export, run>>

CallCloudSql ==
    /\ Calling("Cloud SQL")
    /\ \E g \in {a \in GcloudAnswers(SqlInstances(SqlTiers, SqlStates),
                                     MaxEnt) : UniqueSql(a)} :
        LET li == top_skus[idx]
        IN  Returned(g,
                get_cloudsql_breakdown(li.cost, li.usage, li.sku, g))

CallComputeVm ==
    /\ Calling("Compute Engine")
    /\ ~IsDiskSku(top_skus[idx].sku)
    /\ \E g \in {a \in GcloudAnswers(VmInstances(VmMachineTypes, Zones),
                                     MaxEnt) :
                   UniqueZonal(a)} :
        LET li == top_skus[idx]
        IN  Returned(g,
                get_compute_vm_breakdown(li.cost, li.usage, li.sku, g))

CallComputeDisk ==
    /\ Calling("Compute Engine")
    /\ IsDiskSku(top_skus[idx].sku)
    /\ \E g \in {a \in GcloudAnswers(Disks(DiskSizes, DiskTypes, Zones),
                                     MaxEnt) :
                   UniqueZonal(a)} :
        LET li == top_skus[idx]
        IN  Returned(g,
                get_compute_vm_breakdown(li.cost, li.usage, li.sku, g))

CallAppEngine ==
    /\ Calling("App Engine")
    /\ \E g \in {a \in GcloudAnswers(AeVersions(AeDetails, BOOLEAN),
                                     MaxEnt) :
                   UniqueVersion(a)} :
        LET li == top_skus[idx]
        IN  Returned(g,
                get_appengine_breakdown(li.cost, li.usage, li.sku, g))

CallCloudRun ==
    /\ Calling("Cloud Run")
    /\ \E env \in RunEnvs(SeriesSet(PointLists), MaxSeries) :
        LET li == top_skus[idx]
        IN  Returned(env,
                get_cloudrun_breakdown(li.cost, li.usage, li.sku, env))

CallCloudFunctions ==
    /\ Calling("Cloud Run Functions")
    /\ \E env \in FnEnvs(SeriesSet(PointLists), MaxSeries) :
        LET li == top_skus[idx]
        IN  Returned(env,
                get_cloudfunctions_breakdown(li.cost, li.usage, li.sku, env))

CallVertexAi ==
    /\ Calling("Vertex AI")
    /\ \E env \in VertexEnvs(VertexEndpoints(VertexModels),
                             1..Len(VertexRegions), MaxEp) :
        LET li == top_skus[idx]
        IN  Returned(env,
                get_vertexai_breakdown(li.cost, li.usage, li.sku, env))

NextAdapters ==
    \/ CallCloudSql
    \/ CallComputeVm
    \/ CallComputeDisk
    \/ CallAppEngine
    \/ CallCloudRun
    \/ CallCloudFunctions
    \/ CallVertexAi

SpecAdapters == InitAdapters /\ [][NextAdapters]_vars

(***************************************************************************)
(* The creator resolver and the fallback estimator as functions: one call  *)
(* on one line item.  inv holds the resource_names handed to the resolver. *)
(***************************************************************************)
InitResolvers ==
    /\ top_skus \in {<<li>> : li \in ItemsOf(OtherServices)}
    /\ idx = 1
    /\ pc = "call"
    /\ inv = NoInv
    /\ log = NoLog
    /\ breakdown = NoData
    /\ creators = NoCreators
    /\ fallback = NoFallback
    /\ all_results = <<>>
    /\ written = NotWritten
    /\ uncaught = "none"
    /\ calls = <<>>
    /\ cwd = {}
    /\ export = NoExport
    /\ run = NoRun

CallCreators ==
    /\ pc = "call"
    /\ \E resource_names \in SeqsUpTo(Labels, MaxNames),
          env \in LogEnvs(LogEntries, MaxLog) :
        /\ inv' = resource_names
        /\ log' = env
        /\ creators' = get_resource_creators(top_skus[idx].service,
                                             resource_names, env)
    /\ pc' = "resolved"
    /\ UNCHANGED <<top_skus, idx, breakdown, fallback, all_results, written,
                   uncaught, calls, cwd, export, run>>

CallFallback ==
    /\ pc = "call"
    /\ \E env \in LogEnvs(LogEntries, MaxLog) :
        /\ log' = env
        /\ fallback' = get_fallback(top_skus[idx].service,
                                    top_skus[idx].cost, env)
    /\ pc' = "estimated"
    /\ UNCHANGED <<top_skus, idx, inv, breakdown, creators, all_results,
                   written, uncaught, calls, cwd, export, run>>

NextResolvers == CallCreators \/ CallFallback

SpecResolvers == InitResolvers /\ [][NextResolvers]_vars

(***************************************************************************)
(* main: the dispatch loop over top_skus and the report.                   *)
(***************************************************************************)
\* the billing exports of the main runs: one SKU per service, and the disk
\* SKU of Compute Engine
MainSkusOf(service) ==
    CASE service = "Cloud SQL" -> {<<"Zonal", "vCPU">>}
      [] service = "Compute Engine" ->
             {<<"N2", "Instance", "Core">>,
              <<"SSD", "backed", "PD", "Capacity">>}
      [] service = "App Engine" -> {<<"Flex", "Instance", "Core">>}
      [] service = "Vertex AI" -> {<<"Online", "Prediction", "Core">>}
      [] OTHER -> SkusOf(service)

MainItems ==
    UNION {{LineItem(sv, sku, am) : sku \in MainSkusOf(sv), am \in Amounts} :
           sv \in AdapterServices \cup OtherServices}

\* get_top_skus returns the rows sorted by cost, descending
SortedByCost(items) ==
    \A i \in 1..(Len(items) - 1) : items[i].cost >= items[i + 1].cost

\* what the backend of the line item's adapter may answer in a main run
MainEnvs(li) ==
    CASE li.service = "Cloud SQL" ->
             {a \in GcloudAnswers(
                        SqlInstances({<<"db", "-", "custom", "-", "2", "-",
                                        "7680">>},
                                     {Some("RUNNABLE"), Some("SUSPENDED")}),
                        MaxMainEnt) : UniqueSql(a)}
      [] li.service = "Compute Engine" /\ ~IsDiskSku(li.sku) ->
             {a \in GcloudAnswers(
                        VmInstances({<<"n2", "-", "standard", "-", "2">>},
                                    {<<"zones", "/", "z1">>}),
                        MaxMainEnt) : UniqueZonal(a)}
      [] li.service = "Compute Engine" /\ IsDiskSku(li.sku) ->
             {a \in GcloudAnswers(
                        Disks({<<"10">>, <<"ten">>},
                              {<<"types", "/", "pd", "-", "ssd">>},
                              {<<"zones", "/", "z1">>}),
                        MaxMainEnt) : UniqueZonal(a)}
      [] li.service = "App Engine" ->
             {a \in GcloudAnswers(
                        AeVersions({AeDetail(TRUE, Some("SERVING"), Some(2),
                                             Some(3)),
                                    AeDetail(TRUE, Some("STOPPED"), Some(2),
                                             Some(3)),
                                    AeDetail(FALSE, Missing, Missing,
                                             Missing)},
                                   {TRUE}),
                        MaxMainEnt) : UniqueVersion(a)}
      [] li.service = "Cloud Run" ->
             RunEnvs(SeriesSet({<<Point(3, 0, 0)>>}), MaxMainEnt)
      [] li.service = "Cloud Run Functions" ->
             FnEnvs(SeriesSet({<<Point(0, 2, 1)>>}), MaxMainEnt)
      [] li.service = "Vertex AI" ->
             VertexEnvs({ep \in VertexEndpoints(
                                     {[machineType |-> Some("n1-standard-4"),
                                       minReplicaCount |-> Some(1)]}) :
                            ep.displayName = <<"a">>},
                        {1, 2}, MaxMainEnt)

\* SERVICE_METHOD_MAP.get(service)(total_cost, total_usage, usage_unit, sku)
method_fn(li, env) ==
    CASE li.service = "Cloud SQL" ->
             get_cloudsql_breakdown(li.cost, li.usage, li.sku, env)
      [] li.service = "Compute Engine" ->
             get_compute_vm_breakdown(li.cost, li.usage, li.sku, env)
      [] li.service = "App Engine" ->
             get_appengine_breakdown(li.cost, li.usage, li.sku, env)
      [] li.service = "Cloud Run" ->
             get_cloudrun_breakdown(li.cost, li.usage, li.sku, env)
      [] li.service = "Cloud Run Functions" ->
             get_cloudfunctions_breakdown(li.cost, li.usage, li.sku, env)
      [] li.service = "Vertex AI" ->
             get_vertexai_breakdown(li.cost, li.usage, li.sku, env)

NoCalls == [adapter |-> 0, fallback |-> 0, rows |-> 0]

Init ==
    /\ top_skus \in {q \in SeqsUpTo(MainItems, MaxItems) : SortedByCost(q)}
    /\ idx = 1
    /\ pc = IF top_skus = <<>> THEN "report" ELSE "adapter"
    /\ inv = NoInv
    /\ log = NoLog
    /\ breakdown = NoData
    /\ creators = NoCreators
    /\ fallback = NoFallback
    /\ all_results = <<>>
    /\ written = NotWritten
    /\ uncaught = "none"
    /\ calls = [i \in 1..Len(top_skus) |-> NoCalls]
    /\ cwd = {}
    /\ export = NoExport
    /\ run = NoRun

\* an exception of the call named site has left main
Crash(site) ==
    /\ pc' = "crashed"
    /\ uncaught' = site
    /\ UNCHANGED <<idx, all_results, written>>

\* NextItem putting the rows of the line item before the rows already there
NextItemPrepends(rows) ==
    /\ all_results' = rows \o all_results
    /\ idx' = idx + 1
    /\ pc' = IF idx = Len(top_skus) THEN "report" ELSE "adapter"
    /\ UNCHANGED <<written, uncaught>>

\* the end of one pass of the loop, after rows were appended
NextItem(rows) ==
    /\ all_results' = all_results \o rows
    /\ idx' = idx + 1
    /\ pc' = IF idx = Len(top_skus) THEN "report" ELSE "adapter"
    /\ UNCHANGED <<written, uncaught>>

\* item["Service"], item["SKU"], item["Total SKU Cost"] of a row
Tagged(row, li) ==
    [Service |-> li.service, SKU |-> li.sku, TotalCost |-> li.cost,
     Resource |-> row.Resource, Usage |-> row.Usage,
     SharePct |-> row.SharePct, ActualCost |-> row.ActualCost,
     CreatedBy |-> row.CreatedBy, Method |-> row.Method]

\* the rows main appends for a breakdown and the creators found
BreakdownRows(rows, found, li) ==
    [k \in 1..Len(rows) |->
        Tagged([rows[k] EXCEPT !.CreatedBy =
                   IF rows[k].CreatedBy = Absent
                   THEN DictGet(found, rows[k].Resource, "Unknown")
                   ELSE rows[k].CreatedBy],
               li)]

\* the rows main appends for the result of get_fallback
FallbackItems(rows, li) == [k \in 1..Len(rows) |-> Tagged(rows[k], li)]

\* NoDataRow charging nothing to the unattributed row
NoDataRowZeroCost(li) ==
    [Service |-> li.service, SKU |-> li.sku, TotalCost |-> li.cost,
     Resource |-> <<"No", " ", "data">>, Usage |-> li.usage,
     SharePct |-> 10000, ActualCost |-> 0, CreatedBy |-> "Unknown",
     Method |-> "No data"]

\* the single row main appends when get_fallback returned nothing
NoDataRow(li) ==
    [Service |-> li.service, SKU |-> li.sku, TotalCost |-> li.cost,
     Resource |-> <<"No", " ", "data">>, Usage |-> li.usage,
     SharePct |-> 10000, ActualCost |-> li.cost, CreatedBy |-> "Unknown",
     Method |-> "No data"]

\* method_fn = SERVICE_METHOD_MAP.get(service); breakdown = None;
\* if method_fn: breakdown = method_fn(...)
CallAdapter ==
    /\ pc = "adapter"
    /\ LET li == top_skus[idx]
       IN  IF li.service \notin AdapterServices
           THEN /\ breakdown' = NoData
                /\ inv' = NoInv
                /\ pc' = "fallback"
                /\ UNCHANGED <<idx, all_results, written, uncaught, calls>>
           ELSE \E env \in MainEnvs(li) :
                    /\ inv' = env
                    /\ breakdown' = method_fn(li, env)
                    /\ calls' = [calls EXCEPT ![idx].adapter = @ + 1]
                    /\ IF breakdown'.kind = "raised" THEN Crash("adapter")
                       ELSE /\ pc' = IF Truthy(breakdown') THEN "creators"
                                     ELSE "fallback"
                            /\ UNCHANGED <<idx, all_results, written,
                                           uncaught>>
    /\ log' = NoLog
    /\ creators' = NoCreators
    /\ fallback' = NoFallback
    /\ UNCHANGED <<top_skus, cwd, export, run>>

\* if breakdown: creators = get_resource_creators(...); append the rows
ResolveCreators ==
    /\ pc = "creators"
    /\ LET li == top_skus[idx]
           resource_names == [k \in 1..Len(breakdown.rows) |->
                                 breakdown.rows[k].Resource]
       IN  \E env \in LogEnvs(LogEntries, MaxMainLog) :
               /\ log' = env
               /\ creators' = get_resource_creators(li.service,
                                                    resource_names, env)
               /\ IF creators'.kind = "raised"
                  THEN Crash("creators") /\ UNCHANGED calls
                  ELSE /\ NextItem(BreakdownRows(breakdown.rows,
                                                 creators'.creators, li))
                       /\ calls' = [calls EXCEPT
                                      ![idx].rows = Len(breakdown.rows)]
    /\ inv' = NoInv
    /\ UNCHANGED <<top_skus, breakdown, fallback, cwd, export, run>>

\* else: fallback = get_fallback(...); append its rows, or the "No data" row
Fallback ==
    /\ pc = "fallback"
    /\ LET li == top_skus[idx]
       IN  \E env \in IF HasApiMapping(li.service)
                      THEN LogEnvs(LogEntries, MaxMainLog) ELSE {NoLog} :
               /\ log' = env
               /\ fallback' = get_fallback(li.service, li.cost, env)
               /\ IF fallback'.kind = "raised"
                  THEN /\ Crash("fallback")
                       /\ calls' = [calls EXCEPT ![idx].fallback = @ + 1]
                  ELSE /\ NextItem(IF fallback'.rows # <<>>
                                   THEN FallbackItems(fallback'.rows, li)
                                   ELSE <<NoDataRow(li)>>)
                       /\ calls' = [calls EXCEPT
                                      ![idx].fallback = @ + 1,
                                      ![idx].rows =
                                          IF fallback'.rows # <<>>
                                          THEN Len(fallback'.rows) ELSE 1]
    /\ UNCHANGED <<top_skus, inv, breakdown, creators, cwd, export, run>>

\* RowBefore looking at the first sort column only
RowBeforeByTotalOnly(x, y) == x.TotalCost >= y.TotalCost

\* df.sort_values(["Total SKU Cost", "Actual Cost"], ascending=[False, False])
RowBefore(x, y) ==
    \/ x.TotalCost > y.TotalCost
    \/ x.TotalCost = y.TotalCost /\ x.ActualCost >= y.ActualCost

RECURSIVE InsertRow(_, _)
InsertRow(x, s) ==
    IF s = <<>> THEN <<x>>
    ELSE IF RowBefore(Head(s), x) THEN <<Head(s)>> \o InsertRow(x, Tail(s))
         ELSE <<x>> \o s

RECURSIVE SortRows(_)
SortRows(s) ==
    IF s = <<>> THEN <<>>
    ELSE InsertRow(s[Len(s)], SortRows(SubSeq(s, 1, Len(s) - 1)))

\* the creator identities in the order groupby puts them
PersonOrder == <<"Unknown", "alice", "bob">>

\* df.groupby("Created By")["Actual Cost"].sum(), then sorted by the sum,
\* descending
PersonSummary(rows) ==
    LET present == SelectSeq(PersonOrder,
                       LAMBDA c : \E k \in 1..Len(rows) : rows[k].CreatedBy = c)
        total(c) == SumSeq([k \in 1..Len(rows) |->
                               IF rows[k].CreatedBy = c
                               THEN rows[k].ActualCost ELSE 0])
    IN  SortedDesc([k \in 1..Len(present) |->
                       <<present[k], total(present[k])>>])

\* if all_results: write the detailed report and the person summary
WriteReport ==
    /\ pc = "report"
    /\ written' = IF all_results # <<>>
                  THEN [done |-> TRUE, rows |-> SortRows(all_results),
                        persons |-> PersonSummary(SortRows(all_results))]
                  ELSE written
    /\ pc' = "done"
    /\ UNCHANGED <<top_skus, idx, inv, log, breakdown, creators, fallback,
                   all_results, uncaught, calls, cwd, export, run>>

Next ==
    \/ CallAdapter
    \/ ResolveCreators
    \/ Fallback
    \/ WriteReport

Spec == Init /\ [][Next]_vars

(***************************************************************************)
(* Properties of the adapters.                                             *)
(***************************************************************************)
\* the line item of the adapter call that has returned
Item == top_skus[idx]

ActualCosts(rows) == [i \in 1..Len(rows) |-> rows[i].ActualCost]

\* C1: whenever an adapter returns a non-empty breakdown, the sum of the
\* rows' Actual Cost is within 0.01 times the number of rows of the line
\* item's total cost.
C1_CostSumWithinTolerance ==
    (pc = "returned" /\ Truthy(breakdown)) =>
        Abs(SumSeq(ActualCosts(breakdown.rows)) - Item.cost)
            <= Len(breakdown.rows)

\* the lifecycle state the adapter of the service looks at, per entity
SqlActive(inst) == Get(inst.state, "RUNNABLE") = "RUNNABLE"

VmActive(inst) == inst.status = "RUNNING"

AeActive(v) ==
    v.flex /\ v.detail.ok /\ Get(v.detail.servingStatus, "STOPPED") = "SERVING"

AeWeightOf(v, sku_name) ==
    IF AeIsCpu(sku_name) THEN Get(v.detail.cpu, 1)
    ELSE Get(v.detail.memoryGb2, 1)

\* the label and weight of entity e as the adapter of service reports them
EntityLabel(service, e) ==
    CASE service = "Cloud SQL" -> SqlLabel(e.name, e.tier, e.region)
      [] service = "Compute Engine" ->
             VmLabel(e.name, SplitLast(e.machineType, "/"),
                     SplitLast(e.zone, "/"))
      [] service = "App Engine" ->
             AeLabel(e.service \o <<"/">> \o e.id, Get(e.detail.cpu, 1),
                     Get(e.detail.memoryGb2, 1))

EntityActive(service, e) ==
    CASE service = "Cloud SQL" -> SqlActive(e)
      [] service = "Compute Engine" -> VmActive(e)
      [] service = "App Engine" -> AeActive(e)

EntityWeight(service, e, sku_name) ==
    CASE service = "Cloud SQL" -> SqlWeight(e, sku_name)
      [] service = "Compute Engine" -> VmWeight(e, sku_name)
      [] service = "App Engine" -> AeWeightOf(e, sku_name)

\* the adapter call was one of the lifecycle-filtering adapters and it got
\* an inventory list
LifecycleCall ==
    /\ pc = "returned"
    /\ Item.service \in {"Cloud SQL", "Compute Engine", "App Engine"}
    /\ ~IsDiskSku(Item.sku)
    /\ inv.ok

\* the sum of the weights of the active entities of the list g.list
ActiveWeightOf(li, g) ==
    SumSeq([i \in 1..Len(g.list) |->
               IF EntityActive(li.service, g.list[i])
               THEN EntityWeight(li.service, g.list[i], li.sku)
               ELSE 0])

ActiveWeightSum == ActiveWeightOf(Item, inv)

\* C2: an entity that is not in the active state adds nothing to the weight
\* total, and every row of the breakdown is the row of an active entity.
C2_InactiveExcluded ==
    (LifecycleCall /\ breakdown.kind = "rows") =>
        /\ breakdown.total_weight = ActiveWeightSum
        /\ \A k \in 1..Len(breakdown.rows) :
               \E i \in 1..Len(inv.list) :
                   /\ EntityActive(Item.service, inv.list[i])
                   /\ breakdown.rows[k].Resource
                          = EntityLabel(Item.service, inv.list[i])

\* C2 witness: a list with an active and an inactive entity produced rows
C2_Witness ==
    /\ LifecycleCall
    /\ Truthy(breakdown)
    /\ \E i, j \in 1..Len(inv.list) :
           /\ EntityActive(Item.service, inv.list[i])
           /\ ~EntityActive(Item.service, inv.list[j])
           /\ EntityWeight(Item.service, inv.list[j], Item.sku) > 0

\* the call was the VM adapter on a CPU-billed SKU and it got a list
VmCpuCall ==
    /\ pc = "returned"
    /\ Item.service = "Compute Engine"
    /\ ~IsDiskSku(Item.sku)
    /\ VmIsCpu(Item.sku)
    /\ inv.ok

RunningWeightSum ==
    SumSeq([i \in 1..Len(inv.list) |->
               IF VmActive(inv.list[i]) THEN VmWeight(inv.list[i], Item.sku)
               ELSE 0])

NumRunning == Cardinality({i \in 1..Len(inv.list) : VmActive(inv.list[i])})

\* C9: on a CPU-billed Compute Engine line item every RUNNING VM with
\* weight w gets one row with share w / (sum of the weights of all RUNNING
\* VMs), Actual Cost round(C * share, 2) and Resource Usage
\* round(U * share, 2).
C9_EachRunningVmGetsShare ==
    (VmCpuCall /\ RunningWeightSum > 0) =>
        /\ breakdown.kind = "rows"
        /\ Len(breakdown.rows) = NumRunning
        /\ \A i \in 1..Len(inv.list) :
               VmActive(inv.list[i]) =>
                   \E k \in 1..Len(breakdown.rows) :
                       breakdown.rows[k] =
                           ShareRow(EntityLabel("Compute Engine", inv.list[i]),
                                    VmWeight(inv.list[i], Item.sku),
                                    RunningWeightSum, Item.cost, Item.usage,
                                    "gcloud compute instances list (exact)")

\* the call was a time-series adapter and both of its queries answered
MetricCall ==
    /\ pc = "returned"
    /\ Item.service \in {"Cloud Run", "Cloud Run Functions"}
    /\ breakdown.kind = "rows"

\* C10: a time-series adapter's rows follow the allocation rule of the
\* inventory adapters: a row whose share of the metric total is s has
\* Actual Cost round(total_cost * s, 2) and Resource Usage
\* round(total_usage * s, 2).
C10_MetricRowsFollowShareRule ==
    MetricCall =>
        \A k \in 1..Len(breakdown.rows) :
            LET r == breakdown.rows[k]
                m == r.Usage \div 100
            IN  /\ r.ActualCost
                       = RoundDiv(Item.cost * m, breakdown.total_weight)
                /\ r.Usage = RoundDiv(Item.usage * m, breakdown.total_weight)

(***************************************************************************)
(* Properties of the creator resolver and of the fallback estimator.       *)
(***************************************************************************)
\* the resolver was called and its audit-log query answered
ResolverAnswered ==
    /\ pc = "resolved"
    /\ HasApiMapping(Item.service)
    /\ log.client_ok /\ log.query_ok

\* the positions of the entries that match label rname
MatchingEntries(rname) ==
    {i \in 1..Len(log.entries) :
        /\ log.entries[i].payload_ok
        /\ Matches(rname, Get(log.entries[i].resourceName, <<>>))}

FirstOf(S) == CHOOSE i \in S : \A j \in S : i <= j

\* C6: within one call of get_resource_creators every label that matches
\* an entry maps to the identity of the first matching entry in log order,
\* a label is never mapped twice, and a label that matches none is not
\* mapped.
C6_FirstMatchIsFinal ==
    ResolverAnswered =>
        /\ \A k, l \in 1..Len(creators.creators) :
               creators.creators[k][1] = creators.creators[l][1] => k = l
        /\ \A n \in 1..Len(inv) :
               IF MatchingEntries(inv[n]) = {}
               THEN ~DictHas(creators.creators, inv[n])
               ELSE /\ DictHas(creators.creators, inv[n])
                    /\ DictGet(creators.creators, inv[n], Absent)
                         = Get(log.entries[FirstOf(MatchingEntries(inv[n]))]
                                   .principalEmail, "Unknown")

\* C6 witness: a label matched two entries of different identities
C6_Witness ==
    /\ ResolverAnswered
    /\ \E n \in 1..Len(inv) :
           \E i, j \in MatchingEntries(inv[n]) :
               /\ i < j
               /\ log.entries[i].principalEmail
                      # log.entries[j].principalEmail

\* the fallback estimator was called and its audit-log query answered
FallbackAnswered ==
    /\ pc = "estimated"
    /\ HasApiMapping(Item.service)
    /\ log.client_ok /\ log.query_ok

\* the positions of the create/insert/deploy events of identity c
EventsOf(c) ==
    {i \in 1..Len(log.entries) :
        /\ log.entries[i].payload_ok
        /\ Get(log.entries[i].principalEmail, "Unknown") = c}

Identities ==
    {Get(log.entries[i].principalEmail, "Unknown") :
        i \in {k \in 1..Len(log.entries) : log.entries[k].payload_ok}}

\* the distinct resource names in the events of identity c
ResourcesOf(c) ==
    {Get(log.entries[i].resourceName, <<"Unknown">>) : i \in EventsOf(c)}

RECURSIVE SumOver(_, _)
SumOver(S, f) ==
    IF S = {} THEN 0
    ELSE LET x == CHOOSE y \in S : TRUE
         IN  f[x] + SumOver(S \ {x}, f)

EventCount == [c \in Identities |-> Cardinality(EventsOf(c))]

ResourceCount == [c \in Identities |-> Cardinality(ResourcesOf(c))]

\* the fallback rows are one per identity, each with the share count[c] /
\* (sum of count) of the line item's cost
FallbackFollows(count) ==
    /\ Len(fallback.rows) = Cardinality(Identities)
    /\ \A c \in Identities :
           \E k \in 1..Len(fallback.rows) :
               /\ fallback.rows[k].CreatedBy = c
               /\ fallback.rows[k].ActualCost
                      = RoundDiv(Item.cost * count[c],
                                 SumOver(Identities, count))
               /\ fallback.rows[k].SharePct
                      = RoundDiv(10000 * count[c], SumOver(Identities, count))

LastItem == IF pc \in {"creators", "fallback", "crashed"} THEN idx ELSE idx - 1

\* the rows main appended for line item j
ItemRows(j) ==
    LET before == SumSeq([i \in 1..(j - 1) |-> calls[i].rows])
    IN  SubSeq(all_results, before + 1, before + calls[j].rows)

FallbackMethods == {"Proportional Estimate (fallback)", "No data"}

\* the adapter of li was given the answer env, and the weights of the
\* active entities (RUNNABLE, RUNNING, SERVING; positive series totals) of
\* env add up to zero
ZeroActiveWeight(li, env) ==
    CASE li.service \in {"Cloud SQL", "App Engine"} ->
             env.ok /\ ActiveWeightOf(li, env) = 0
      [] li.service = "Compute Engine" /\ ~IsDiskSku(li.sku) ->
             env.ok /\ ActiveWeightOf(li, env) = 0
      [] li.service = "Cloud Run" ->
             /\ env.client_ok /\ env.query_ok
             /\ \A i \in 1..Len(env.series) :
                    SumValues(env.series[i].points) <= 0
      [] OTHER -> FALSE

\* C3: when the active weight total of a line item's adapter is zero, the
\* adapter returns None, main goes to the fallback branch, calls
\* get_fallback exactly once for the line item and appends no adapter row
\* for it.
C3_ZeroWeightGoesToFallbackOnce ==
    LET j == LastItem
    IN  (/\ j >= 1
         /\ calls[j].adapter = 1
         /\ ZeroActiveWeight(top_skus[j], inv)) =>
            /\ breakdown.kind = "none"
            /\ pc # "creators"
            /\ calls[j].adapter = 1
            /\ calls[j].fallback = (IF pc = "fallback" THEN 0 ELSE 1)
            /\ pc \notin {"fallback", "crashed"} =>
                   /\ calls[j].rows >= 1
                   /\ \A k \in 1..calls[j].rows :
                          ItemRows(j)[k].Method \in FallbackMethods

\* C3 witness: the VM adapter was given instances none of which is RUNNING,
\* and the fallback has run for the line item
C3_Witness ==
    LET j == LastItem
    IN  /\ pc \in {"adapter", "report", "done"}
        /\ j >= 1
        /\ top_skus[j].service = "Compute Engine"
        /\ ~IsDiskSku(top_skus[j].sku)
        /\ calls[j].adapter = 1
        /\ inv.ok /\ inv.list # <<>>
        /\ ActiveWeightOf(top_skus[j], inv) = 0
        /\ calls[j].fallback = 1

\* C4: no exception raised while an adapter runs leaves the adapter: it is
\* treated as no data and never reaches main.
C4_AdapterExceptionsAreCaught ==
    /\ breakdown.kind # "raised"
    /\ uncaught # "adapter"

\* C5: once the billing export is loaded the run ends with the report
\* written: every line item was processed and the rows produced are in the
\* report, whatever failed for a line item.
C5_RunAlwaysReachesReport ==
    pc \in {"done", "crashed"} =>
        /\ pc = "done"
        /\ idx = Len(top_skus) + 1
        /\ all_results # <<>> =>
               written.done /\ Len(written.rows) = Len(all_results)

\* the audit-log query of the last get_fallback call yielded no event
NoEvents ==
    \/ ~log.query_ok
    \/ \A i \in 1..Len(log.entries) : ~log.entries[i].payload_ok

\* C8: a line item whose service has no adapter and whose audit-log query
\* yields no events, or whose service has no API mapping, gets exactly one
\* row: Created By "Unknown", Usage Share % 100, Actual Cost the line
\* item's total cost, Method "No data".
C8_NoAdapterNoEventsGivesNoDataRow ==
    LET j == LastItem
    IN  (/\ pc \in {"adapter", "report", "done"}
         /\ j >= 1
         /\ top_skus[j].service \notin AdapterServices
         /\ (~HasApiMapping(top_skus[j].service) \/ NoEvents)) =>
            /\ calls[j].rows = 1
            /\ LET r == ItemRows(j)[1]
               IN  /\ r.CreatedBy = "Unknown"
                   /\ r.SharePct = 10000
                   /\ r.ActualCost = top_skus[j].cost
                   /\ r.Method = "No data"
                   /\ r.Service = top_skus[j].service
                   /\ r.SKU = top_skus[j].sku

\* C8 witness: a service with an API mapping and no adapter, and an
\* audit-log query that answered with no events
C8_Witness ==
    LET j == LastItem
    IN  /\ pc \in {"adapter", "report", "done"}
        /\ j >= 1
        /\ top_skus[j].service \notin AdapterServices
        /\ HasApiMapping(top_skus[j].service)
        /\ log.client_ok /\ log.query_ok
        /\ NoEvents
        /\ calls[j].fallback = 1

(***************************************************************************)
(* Properties of the disk adapter.                                         *)
(***************************************************************************)
\* the disk adapter was called and it got an inventory list
DiskCall ==
    /\ pc = "returned"
    /\ Item.service = "Compute Engine"
    /\ IsDiskSku(Item.sku)
    /\ inv.ok

\* the disk is of the type the SKU names
DiskMatchesSku(disk, sku_name) ==
    Contains(sku_name, <<"SSD">>) <=> DiskIsSsd(SplitLast(disk.type, "/"))

\* the disk of the inventory list a row is about
IsRowOfDisk(row, disk) ==
    row.Resource = DiskLabel(disk.name, disk.sizeGb,
                             SplitLast(disk.type, "/"),
                             SplitLast(disk.zone, "/"))

\* C11: in the disk adapter a disk whose type does not match the disk type
\* named by the SKU, SSD versus standard in either direction, gets no row:
\* every row of the breakdown is the row of a disk of the SKU's type.
C11_DiskTypeFilterBothWays ==
    (DiskCall /\ breakdown.kind = "rows") =>
        \A k \in 1..Len(breakdown.rows) :
            \A i \in 1..Len(inv.list) :
                IsRowOfDisk(breakdown.rows[k], inv.list[i])
                    => DiskMatchesSku(inv.list[i], Item.sku)

\* the direction the code filters: an SSD SKU never pays for a standard disk
DiskSsdSkuExcludesStandard ==
    (DiskCall /\ breakdown.kind = "rows" /\ Contains(Item.sku, <<"SSD">>)) =>
        \A k \in 1..Len(breakdown.rows) :
            \A i \in 1..Len(inv.list) :
                IsRowOfDisk(breakdown.rows[k], inv.list[i])
                    => DiskMatchesSku(inv.list[i], Item.sku)

(***************************************************************************)
(* STEP 1: the billing loaders.                                            *)
(*   get_top_skus of resource_cost_breakdown.py ranks the rows of the      *)
(*   export; analyze_billing_data of generate_report.py first sums the     *)
(*   cost per (Service, SKU) pair.  A billing export is a record           *)
(*     columns : the column names of its header                            *)
(*     rows    : its rows, each with the position it has in the file       *)
(*   sort_values is called without kind=, which is quicksort: pandas       *)
(*   documents it as not stable, so rows of equal cost come out in any     *)
(*   order.                                                                *)
(***************************************************************************)
\* head(10)
TopK == 10

MaxRows == 11      \* rows in a billing export

Head10(s) == SubSeq(s, 1, IF Len(s) < TopK THEN Len(s) ELSE TopK)

\* the orders sort_values("Cost ($)", ascending=False) can give to the rows
RECURSIVE SortValuesDesc(_)
SortValuesDesc(S) ==
    IF S = {} THEN {<<>>}
    ELSE LET first == {r \in S : \A q \in S : r.cost >= q.cost}
         IN  UNION {{<<r>> \o t : t \in SortValuesDesc(S \ {r})} :
                    r \in first}

LoaderRaised(error) == [kind |-> "raised", error |-> error, rows |-> <<>>]

LoaderRows(rows) == [kind |-> "rows", error |-> "none", rows |-> rows]

\* the results get_top_skus can give on the export e; the print loop reads
\* the description and unit columns of every row it lists
get_top_skus(e) ==
    IF "Cost ($)" \notin e.columns \/ "Usage amount" \notin e.columns
    THEN {LoaderRaised("KeyError")}
    ELSE {IF /\ df # <<>>
             /\ ~({"Service description", "SKU description", "Usage unit"}
                     \subseteq e.columns)
          THEN LoaderRaised("KeyError")
          ELSE LoaderRows(df) :
             df \in {Head10(o) :
                        o \in SortValuesDesc({e.rows[i] :
                                                 i \in 1..Len(e.rows)})}}

\* df.groupby(["Service description", "SKU description"])["Cost ($)"].sum()
GroupBySum(rows) ==
    {[service |-> p[1], sku |-> p[2],
      cost |-> SumSeq([i \in 1..Len(rows) |->
                          IF <<rows[i].service, rows[i].sku>> = p
                          THEN rows[i].cost ELSE 0])] :
        p \in {<<rows[i].service, rows[i].sku>> : i \in 1..Len(rows)}}

\* the data frames analyze_billing_data can return on the export e; an
\* exception is caught and gives the empty data frame
analyze_billing_data(e) ==
    IF ~({"Service description", "SKU description", "Cost ($)"}
            \subseteq e.columns)
    THEN {<<>>}
    ELSE {Head10(o) : o \in SortValuesDesc(GroupBySum(e.rows))}

\* the columns of a billing export
BillingColumns ==
    {"Service description", "SKU description", "Cost ($)", "Usage amount",
     "Usage unit"}

\* the headers of the exports: complete, or with one column missing
Headers == {BillingColumns} \cup {BillingColumns \ {c} : c \in BillingColumns}

ExportRow(i, cost, pair) ==
    [index |-> i,
     service |-> IF pair % 2 = 1 THEN "Compute Engine" ELSE "BigQuery",
     sku |-> <<"SKU", ToString(pair)>>,
     cost |-> 100 * cost, usage |-> 100]

\* the cost columns of the exports of n rows: distinct costs in rising and
\* in falling order, and costs that come in pairs, next to each other or
\* apart
CostColumns(n) ==
    {[i \in 1..n |-> i], [i \in 1..n |-> n + 1 - i],
     [i \in 1..n |-> (i + 1) \div 2], [i \in 1..n |-> (n - i) \div 2 + 1],
     [i \in 1..n |-> ((i - 1) % (n \div 2 + 1)) + 1]}

\* the (Service, SKU) pairs of the rows: all different, or each one twice
PairColumns(n) == {[i \in 1..n |-> i], [i \in 1..n |-> (i + 1) \div 2]}

Exports(n) ==
    UNION {{[columns |-> h,
             rows |-> [i \in 1..k |-> ExportRow(i, c[i], p[i])]] :
               h \in Headers, c \in CostColumns(k), p \in PairColumns(k)} :
           k \in 0..n}

InitLoader ==
    /\ export \in Exports(MaxRows)
    /\ top_skus = <<>>
    /\ idx = 1
    /\ pc = "load"
    /\ inv = NoInv
    /\ log = NoLog
    /\ breakdown = NoData
    /\ creators = NoCreators
    /\ fallback = NoFallback
    /\ all_results = <<>>
    /\ written = NotWritten
    /\ uncaught = "none"
    /\ calls = <<>>
    /\ cwd = {}
    /\ run = NoRun

\* top_skus = get_top_skus(csv_path)
GetTopSkus ==
    /\ pc = "load"
    /\ \E res \in get_top_skus(export) :
           /\ top_skus' = res.rows
           /\ uncaught' = res.error
           /\ pc' = IF res.kind = "raised" THEN "crashed" ELSE "loaded"
    /\ UNCHANGED <<idx, inv, log, breakdown, creators, fallback, all_results,
                   written, calls, cwd, export, run>>

\* top_skus_df = analyze_billing_data(billing_csv)
AnalyzeBillingData ==
    /\ pc = "load"
    /\ \E df \in analyze_billing_data(export) :
           top_skus' = df
    /\ pc' = "analyzed"
    /\ UNCHANGED <<idx, inv, log, breakdown, creators, fallback, all_results,
                   written, uncaught, calls, cwd, export, run>>

NextLoader == GetTopSkus \/ AnalyzeBillingData

SpecLoader == InitLoader /\ [][NextLoader]_vars

(***************************************************************************)
(* Properties of the billing loaders.                                      *)
(***************************************************************************)
\* the rows the loader ranked: the rows of the export, or one row per
\* (Service, SKU) pair with the position of the pair's first row
Ranked ==
    IF pc = "loaded"
    THEN {[cost |-> export.rows[i].cost, at |-> i] :
             i \in 1..Len(export.rows)}
    ELSE {[cost |-> g.cost,
           at |-> CHOOSE i \in 1..Len(export.rows) :
                     /\ <<export.rows[i].service, export.rows[i].sku>>
                            = <<g.service, g.sku>>
                     /\ \A j \in 1..(i - 1) :
                            <<export.rows[j].service, export.rows[j].sku>>
                                # <<g.service, g.sku>>] :
             g \in GroupBySum(export.rows)}

\* the place in the export of the k-th line item of the result
PlaceOf(k) ==
    IF pc = "loaded" THEN top_skus[k].index
    ELSE CHOOSE i \in 1..Len(export.rows) :
             /\ <<export.rows[i].service, export.rows[i].sku>>
                    = <<top_skus[k].service, top_skus[k].sku>>
             /\ \A j \in 1..(i - 1) :
                    <<export.rows[j].service, export.rows[j].sku>>
                        # <<top_skus[k].service, top_skus[k].sku>>

Loaded == pc \in {"loaded", "analyzed"} /\ top_skus # <<>>

\* the part of C12 that does not depend on the order of equal costs: at
\* most 10 line items, in falling order of cost, none left out that costs
\* more than one that is in
TopTenByCost ==
    Loaded =>
        /\ Len(top_skus) <= TopK
        /\ \A k \in 1..(Len(top_skus) - 1) :
               top_skus[k].cost >= top_skus[k + 1].cost
        /\ \A r \in Ranked :
               (\A k \in 1..Len(top_skus) : PlaceOf(k) # r.at)
                   => \A k \in 1..Len(top_skus) : r.cost <= top_skus[k].cost

\* C12: the loader returns at most 10 line items sorted by cost in falling
\* order, two line items of equal cost keep the order they had in the
\* billing export, and no line item left out costs more than one that is in.
C12_TopTenStableSorted ==
    Loaded =>
        /\ Len(top_skus) <= TopK
        /\ \A k \in 1..(Len(top_skus) - 1) :
               \/ top_skus[k].cost > top_skus[k + 1].cost
               \/ /\ top_skus[k].cost = top_skus[k + 1].cost
                  /\ PlaceOf(k) < PlaceOf(k + 1)
        /\ \A r \in Ranked :
               (\A k \in 1..Len(top_skus) : PlaceOf(k) # r.at)
                   => \A k \in 1..Len(top_skus) : r.cost <= top_skus[k].cost

(***************************************************************************)
(* Properties of the inventory CLI calls.                                  *)
(***************************************************************************)
\* inv is still the answer the adapter of line item j was given
EnvKept(j) ==
    /\ j >= 1
    /\ calls[j].adapter = 1
    /\ \/ pc \in {"creators", "fallback"}
       \/ calls[j].fallback = 1
       \/ pc = "crashed" /\ uncaught = "adapter"

\* every run_gcloud call of the adapter of li failed
GcloudFailed(li, env) ==
    CASE li.service \in {"Cloud SQL", "Compute Engine", "App Engine"} ->
             env = GcloudNone
      [] li.service = "Vertex AI" ->
             \A r \in 1..Len(VertexRegions) : env[r] = GcloudNone
      [] OTHER -> FALSE

\* the versions list without the versions whose describe call failed
AeDescribed(env) == Gcloud(SelectSeq(env.list, LAMBDA v : v.detail.ok))

\* the per-region answers with the failed regions answering no endpoint
VertexAnswered(env) ==
    [r \in 1..Len(VertexRegions) |->
        IF env[r] = GcloudNone THEN Gcloud(<<>>) ELSE env[r]]

\* C13: a non-zero exit, a timeout or unparsable output of the inventory
\* CLI is never fatal: run_gcloud returns None, the adapter whose calls
\* failed returns no data and the line item goes to the fallback estimator;
\* a failed per-version call of the App Engine adapter or per-region call
\* of the Vertex AI adapter only leaves that version or region out.
C13_GcloudFailureIsNotFatal ==
    LET j == LastItem
    IN  /\ \A p \in FailedProcs : run_gcloud(p) = GcloudNone
        /\ EnvKept(j) =>
             LET li == top_skus[j]
             IN  /\ GcloudFailed(li, inv) =>
                       /\ breakdown = NoData
                       /\ uncaught # "adapter"
                       /\ pc # "creators"
                       /\ calls[j].fallback = (IF pc = "fallback" THEN 0 ELSE 1)
                 /\ (li.service = "App Engine" /\ inv.ok) =>
                       breakdown = get_appengine_breakdown(
                                       li.cost, li.usage, li.sku,
                                       AeDescribed(inv))
                 /\ li.service = "Vertex AI" =>
                       breakdown = get_vertexai_breakdown(
                                       li.cost, li.usage, li.sku,
                                       VertexAnswered(inv))

\* C13 witness: the describe call of one App Engine version failed, the
\* other versions got their rows
C13_Witness ==
    LET j == LastItem
    IN  /\ EnvKept(j)
        /\ top_skus[j].service = "App Engine"
        /\ inv.ok
        /\ \E i \in 1..Len(inv.list) : ~inv.list[i].detail.ok
        /\ Truthy(breakdown)

\* a failed list call sent the line item to the fallback estimator
GcloudFailedWentToFallback ==
    LET j == LastItem
    IN  /\ EnvKept(j)
        /\ GcloudFailed(top_skus[j], inv)
        /\ calls[j].fallback = 1

\* a failed region of the Vertex AI adapter was left out, the endpoints of
\* another region got their rows
VertexRegionSkipped ==
    LET j == LastItem
    IN  /\ EnvKept(j)
        /\ top_skus[j].service = "Vertex AI"
        /\ \E r \in 1..Len(VertexRegions) : inv[r] = GcloudNone
        /\ Truthy(breakdown)

(***************************************************************************)
(* The two scripts run in one working directory.  A file is a record       *)
(*     name    : its name, cut so that every pattern the scripts look for  *)
(*               is a run of whole tokens                                  *)
(*     columns : the column names of its header                            *)
(*     rows    : its rows                                                  *)
(* glob.glob returns the names in arbitrary order, so input_csvs[0] is any *)
(* of the candidates.  One action is one whole run of a script; what the   *)
(* audit log and the backends answer during the run is chosen freely.      *)
(***************************************************************************)
MaxFileRows == 1   \* rows in a billing export of the working directory

File(name, content) ==
    [name |-> name, columns |-> content.columns, rows |-> content.rows]

\* glob.glob("*.csv")
IsCsv(name) == name # <<>> /\ name[Len(name)] = ".csv"

\* the candidates of find_billing_csv of resource_cost_breakdown.py
MainInputCsvs(files) ==
    {f \in files :
        /\ IsCsv(f.name)
        /\ ~Contains(f.name, <<"gcp_">>)
        /\ ~Contains(f.name, <<"top_10">>)
        /\ ~Contains(f.name, <<"resource_cost">>)
        /\ ~Contains(f.name, <<"person_cost">>)}

\* the candidates of find_billing_csv of generate_report.py
ReportInputCsvs(files) ==
    {f \in files :
        /\ IsCsv(f.name)
        /\ ~Contains(f.name, <<"gcp_", "created_resources">>)
        /\ ~Contains(f.name, <<"top_10">>)
        /\ ~Contains(f.name, <<"gcp_", "creation_audit_report">>)}

\* the names of the files main of resource_cost_breakdown.py writes
MainOutputs ==
    {<<"resource_cost", "_breakdown", ".xlsx">>,
     <<"resource_cost", "_breakdown", ".csv">>,
     <<"person_cost", "_summary", ".xlsx">>}

\* the columns of the detailed report and of the person summary
MainOutputColumns(name) ==
    IF name = <<"person_cost", "_summary", ".xlsx">>
    THEN {"Person", "Total Cost"}
    ELSE {"Service", "SKU", "Total SKU Cost", "Unit Price", "Usage Unit",
          "Resource", "Resource Usage", "Usage Share %", "Actual Cost",
          "Created By", "Method"}

\* the names of the files main of generate_report.py writes
TopSkusFile == <<"top_10", "_cost_skus", ".xlsx">>

NoLogsReport == <<"gcp_", "top_cost_skus_report", ".xlsx">>

SummaryFiles ==
    {<<"gcp_", "sku_cost_creators_summary", ".xlsx">>,
     <<"gcp_", "sku_cost_creators_summary", ".csv">>}

ReportOutputs == {TopSkusFile, NoLogsReport} \cup SummaryFiles

ReportOutputColumns(name) ==
    IF name \in SummaryFiles
    THEN {"Service", "SKU", "Total Cost", "Creators (Count)",
          "Total Resources Created", "First Created", "Last Created"}
    ELSE {"Service description", "SKU description", "Cost ($)"}

\* the rows of a written table, as many as were written
WrittenRows(n) == [k \in 1..n |-> [index |-> k]]

\* to_excel / to_csv: the files named replace those of the same name
WriteFiles(files, written_files) ==
    {f \in files : \A w \in written_files : w.name # f.name}
    \cup written_files

\* the billing exports a user puts in the working directory
UserFiles(n) ==
    {File(<<"billing", ".csv">>, e) : e \in Exports(n)}

\* a second export, under a name with the cloud's prefix
PrefixedFile ==
    File(<<"gcp_", "billing", ".csv">>,
         [columns |-> BillingColumns, rows |-> <<ExportRow(1, 1, 1)>>])

InitFiles ==
    /\ cwd \in {{}} \cup {{f} : f \in UserFiles(MaxFileRows)}
                   \cup {{f, PrefixedFile} : f \in UserFiles(MaxFileRows)}
    /\ run = NoRun
    /\ export = NoExport
    /\ top_skus = <<>>
    /\ idx = 1
    /\ pc = "shell"
    /\ inv = NoInv
    /\ log = NoLog
    /\ breakdown = NoData
    /\ creators = NoCreators
    /\ fallback = NoFallback
    /\ all_results = <<>>
    /\ written = NotWritten
    /\ uncaught = "none"
    /\ calls = <<>>

\* the run of script ended: it had read the file csv, ended with error and
\* wrote the files of wrote
Ran(script, csv, error, wrote) ==
    /\ run' = [script |-> script, csv_path |-> csv.name, error |-> error,
               wrote |-> {w.name : w \in wrote}]
    /\ export' = [columns |-> csv.columns, rows |-> csv.rows]
    /\ cwd' = WriteFiles(cwd, wrote)

\* no billing CSV found
RanWithoutCsv(script) ==
    /\ run' = [script |-> script, csv_path |-> <<>>,
               error |-> "No billing CSV", wrote |-> {}]
    /\ export' = NoExport
    /\ cwd' = cwd

\* one run of resource_cost_breakdown.py: crashed says that an exception
\* left an adapter, the creator resolver or the fallback estimator
RunResourceCostBreakdown ==
    /\ pc = "shell"
    /\ IF MainInputCsvs(cwd) = {}
       THEN RanWithoutCsv("resource_cost_breakdown")
       ELSE \E csv \in MainInputCsvs(cwd) :
            \E res \in get_top_skus(csv) :
            \E crashed \in BOOLEAN :
                Ran("resource_cost_breakdown", csv,
                    IF res.kind = "raised" THEN res.error
                    ELSE IF res.rows # <<>> /\ crashed THEN "Exception"
                    ELSE "none",
                    IF res.kind = "raised" \/ res.rows = <<>> \/ crashed
                    THEN {}
                    ELSE {File(n, [columns |-> MainOutputColumns(n),
                                   rows |-> WrittenRows(Len(res.rows))]) :
                             n \in MainOutputs})
    /\ UNCHANGED <<top_skus, idx, pc, inv, log, breakdown, creators,
                   fallback, all_results, written, uncaught, calls>>

\* one run of generate_report.py: client_ok says that the logging client
\* could be created, events that the audit log had an event of a service
RunGenerateReport ==
    /\ pc = "shell"
    /\ IF ReportInputCsvs(cwd) = {}
       THEN RanWithoutCsv("generate_report")
       ELSE \E csv \in ReportInputCsvs(cwd) :
            \E df \in analyze_billing_data(csv) :
            \E client_ok \in BOOLEAN :
            \E events \in BOOLEAN :
                LET table(n) == File(n, [columns |-> ReportOutputColumns(n),
                                         rows |-> WrittenRows(Len(df))])
                IN  Ran("generate_report", csv,
                        IF df = <<>> THEN "Error analyzing billing CSV"
                        ELSE IF ~client_ok
                             THEN "Failed to create Logging client"
                        ELSE "none",
                        IF df = <<>> THEN {}
                        ELSE IF ~client_ok THEN {table(TopSkusFile)}
                        ELSE IF ~events
                             THEN {table(TopSkusFile), table(NoLogsReport)}
                        ELSE {table(TopSkusFile)}
                             \cup {table(n) : n \in SummaryFiles})
    /\ UNCHANGED <<top_skus, idx, pc, inv, log, breakdown, creators,
                   fallback, all_results, written, uncaught, calls>>

NextFiles == RunResourceCostBreakdown \/ RunGenerateReport

SpecFiles == InitFiles /\ [][NextFiles]_vars

(***************************************************************************)
(* Properties of the runs in a working directory.                          *)
(***************************************************************************)
HasRun == run.script # "none" /\ run.csv_path # <<>>

\* C14: whatever runs of the two scripts came before in the working
\* directory, find_billing_csv of either script never returns a file that
\* one of the scripts wrote.
C14_InputIsNeverAnOutput ==
    HasRun => run.csv_path \notin (MainOutputs \cup ReportOutputs)

\* the part of C14 that holds: find_billing_csv of
\* resource_cost_breakdown.py never returns an output file
MainInputIsNeverAnOutput ==
    (HasRun /\ run.script = "resource_cost_breakdown") =>
        run.csv_path \notin (MainOutputs \cup ReportOutputs)

\* the columns the billing loader requires
RequiredColumns ==
    {"Cost ($)", "Usage amount", "Service description", "SKU description"}

\* C18: when the billing export lacks a required column (cost, usage
\* amount, service description or SKU description), the loader fails with
\* an input error, the run aborts and it has written no output file.
C18_MissingColumnAbortsRun ==
    (HasRun /\ ~(RequiredColumns \subseteq export.columns)) =>
        /\ run.error # "none"
        /\ run.wrote = {}

\* the part of C18 that holds: resource_cost_breakdown.py writes nothing
\* when the export it read lacks a required column
MainWritesNothingWithoutColumns ==
    (/\ HasRun /\ run.script = "resource_cost_breakdown"
     /\ ~(RequiredColumns \subseteq export.columns)) =>
        run.wrote = {}

(***************************************************************************)
(* Properties of the report.                                               *)
(***************************************************************************)
\* how often the row r is in the table s
Count(s, r) == Cardinality({k \in 1..Len(s) : s[k] = r})

\* the sum of Actual Cost over the rows of s created by c
CostOf(s, c) ==
    SumSeq([k \in 1..Len(s) |->
               IF s[k].CreatedBy = c THEN s[k].ActualCost ELSE 0])

\* C15: the detailed report lists every attribution row, sorted by the
\* line item's total cost and then by Actual Cost, both falling; the person
\* summary has exactly one entry per creator identity, its total is the sum
\* of Actual Cost over the identity's rows, it is sorted by falling total,
\* and the totals add up to the sum of Actual Cost over all rows.
C15_ReportSortedAndSummed ==
    (pc = "done" /\ all_results # <<>>) =>
        /\ written.done
        /\ Len(written.rows) = Len(all_results)
        /\ \A k \in 1..Len(all_results) :
               Count(written.rows, all_results[k])
                   = Count(all_results, all_results[k])
        /\ \A k \in 1..(Len(written.rows) - 1) :
               LET x == written.rows[k]
                   y == written.rows[k + 1]
               IN  \/ x.TotalCost > y.TotalCost
                   \/ /\ x.TotalCost = y.TotalCost
                      /\ x.ActualCost >= y.ActualCost
        /\ {written.persons[k][1] : k \in 1..Len(written.persons)}
               = {all_results[k].CreatedBy : k \in 1..Len(all_results)}
        /\ \A k, m \in 1..Len(written.persons) :
               k # m => written.persons[k][1] # written.persons[m][1]
        /\ \A k \in 1..Len(written.persons) :
               written.persons[k][2]
                   = CostOf(all_results, written.persons[k][1])
        /\ \A k \in 1..(Len(written.persons) - 1) :
               written.persons[k][2] >= written.persons[k + 1][2]
        /\ SumSeq([k \in 1..Len(written.persons) |-> written.persons[k][2]])
               = SumSeq(ActualCosts(all_results))

\* C15 witness: a report of two line items of the same total cost written
\* with rows of two creators, the rows not in the order they were produced
C15_Witness ==
    /\ pc = "done"
    /\ written.done
    /\ Len(written.persons) >= 2
    /\ written.rows # all_results
    /\ \E k \in 1..(Len(written.rows) - 1) :
           /\ written.rows[k].TotalCost = written.rows[k + 1].TotalCost
           /\ written.rows[k].ActualCost > written.rows[k + 1].ActualCost

(***************************************************************************)
(* Properties of the Cloud Run Functions adapter.                          *)
(***************************************************************************)
\* the Cloud Run Functions adapter was called and its first query answered
FunctionsCall ==
    /\ pc = "returned"
    /\ Item.service = "Cloud Run Functions"
    /\ inv.client_ok /\ inv.query_ok

\* the functions of the execution_times answer with a positive total
DurationGroups ==
    {i \in 1..Len(inv.series) : SumTimes(inv.series[i].points) > 0}

\* the functions of the execution_count answer with a positive total
CountGroups ==
    IF inv.query2_ok
    THEN {i \in 1..Len(inv.series2) : SumValues(inv.series2[i].points) > 0}
    ELSE {}

\* the breakdown has one row per group of the answer series, and the
\* groups' totals taken by total(_) are its weights
RowsFrom(series, groups, total(_)) ==
    /\ breakdown.kind = "rows"
    /\ Len(breakdown.rows) = Cardinality(groups)
    /\ breakdown.total_weight
           = SumSeq([i \in 1..Len(series) |->
                        IF i \in groups THEN total(series[i].points) ELSE 0])
    /\ \A i \in groups :
           \E k \in 1..Len(breakdown.rows) :
               /\ breakdown.rows[k].Resource = series[i].name
               /\ breakdown.rows[k].SharePct
                      = RoundDiv(10000 * total(series[i].points),
                                 breakdown.total_weight)

DurationAloneUsed ==
    /\ FunctionsCall
    /\ DurationGroups # {}
    /\ \E i \in CountGroups :
           \A d \in DurationGroups : inv.series[d].name # inv.series2[i].name

(***************************************************************************)
(* Properties of the Vertex AI adapter.                                    *)
(***************************************************************************)
VertexCall == pc = "returned" /\ Item.service = "Vertex AI"

\* the endpoints of the regions that answered, each with its region
Endpoints == VertexAll(inv, 1)

\* replica count times the CPU (or RAM) value of the machine type, summed
\* over the deployed models of the endpoint
ReplicaWeight(ep, sku_name) ==
    SumSeq([m \in 1..Len(ep.deployedModels) |->
               LET model == ep.deployedModels[m]
                   machine_type == Get(model.machineType, "n1-standard-2")
               IN  Get(model.minReplicaCount, 1)
                   * (IF VertexIsCpu(sku_name) THEN N1Cpu(machine_type)
                      ELSE N1Ram(machine_type))])

EndpointKey(e) == VertexKey(e.ep.displayName, e.ep.deployedModels, e.region)

\* C17: the weight of an endpoint is the sum over its deployed models of
\* replica count times the CPU (or RAM) value of the machine type, unknown
\* machine types counting 2 vCPU / 7.5 GB; an endpoint with no deployed
\* model or with weight 0 gets no row, and the others share the cost by
\* their weights.
C17_EndpointWeightIsReplicasTimesMachine ==
    VertexCall =>
        LET total == SumSeq([i \in 1..Len(Endpoints) |->
                                ReplicaWeight(Endpoints[i].ep, Item.sku)])
        IN  /\ N1Cpu("a2-highgpu-1g") = 2 /\ N1Ram("a2-highgpu-1g") = 750
            /\ breakdown.kind = (IF total = 0 THEN "none" ELSE "rows")
            /\ breakdown.kind = "rows" =>
                 /\ breakdown.total_weight = total
                 /\ \A i \in 1..Len(Endpoints) :
                        LET w == ReplicaWeight(Endpoints[i].ep, Item.sku)
                            row(k) == breakdown.rows[k]
                        IN  IF w > 0
                            THEN \E k \in 1..Len(breakdown.rows) :
                                   /\ row(k).Resource
                                          = EndpointKey(Endpoints[i])
                                   /\ row(k).SharePct
                                          = RoundDiv(10000 * w, total)
                                   /\ row(k).ActualCost
                                          = RoundDiv(Item.cost * w, total)
                            ELSE \A k \in 1..Len(breakdown.rows) :
                                   row(k).Resource
                                       # EndpointKey(Endpoints[i])
                 /\ \A k \in 1..Len(breakdown.rows) :
                        \E i \in 1..Len(Endpoints) :
                            /\ breakdown.rows[k].Resource
                                   = EndpointKey(Endpoints[i])
                            /\ Endpoints[i].ep.deployedModels # <<>>

\* C17 witness: an endpoint with two deployed models, one of them of a
\* machine type the tables do not know with two replicas, got a row next
\* to an endpoint with no deployed model, which got none
C17_Witness ==
    /\ VertexCall
    /\ Truthy(breakdown)
    /\ \E i, j \in 1..Len(Endpoints) :
           /\ Endpoints[i].ep.deployedModels = TwoModels
           /\ Endpoints[j].ep.deployedModels = <<>>

(***************************************************************************)
(* Properties of the creators of the rows.                                 *)
(***************************************************************************)
\* the last path segment of a label: of the name the label starts with,
\* which ends at the first blank, what follows the last "/"
LastSegment(label) ==
    LET blanks == {p \in 1..Len(label) : label[p] = " "}
        stop == IF blanks = {} THEN Len(label) + 1
                ELSE CHOOSE p \in blanks : \A q \in blanks : p <= q
        slashes == {p \in 1..(stop - 1) : label[p] = "/"}
        start == IF slashes = {} THEN 0
                 ELSE CHOOSE p \in slashes : \A q \in slashes : q <= p
    IN  SubSeq(label, start + 1, stop - 1)

\* seg is in full, letter case aside
InIgnoringCase(seg, full) ==
    \E off \in 0..(Len(full) - Len(seg)) :
        \A i \in 1..Len(seg) : LowerTok(seg[i]) = LowerTok(full[off + i])

\* the entries of the audit-log answer whose resource name has the last
\* segment of label in it
EntriesNaming(label) ==
    {i \in 1..Len(log.entries) :
        /\ log.entries[i].payload_ok
        /\ InIgnoringCase(LastSegment(label),
                          Get(log.entries[i].resourceName, <<>>))}

\* main has appended the rows of line item j with the creators the
\* resolver found in the audit-log answer log
Resolved(j) ==
    /\ pc \in {"adapter", "report", "done"}
    /\ j >= 1
    /\ calls[j].adapter = 1
    /\ calls[j].fallback = 0

\* main has appended the rows the fallback estimator gave for line item j
Estimated(j) ==
    /\ pc \in {"adapter", "report", "done"}
    /\ j >= 1
    /\ calls[j].fallback = 1
    /\ fallback.rows # <<>>

\* C19: a row gets the identity of the first audit-log entry whose resource
\* name has the last path segment of the row's label in it, letter case
\* aside; a label no entry matches is reported with creator "Unknown"; and
\* a row that carries a creator already, a fallback row, keeps it.
C19_CreatorBySegmentElseUnknown ==
    LET j == LastItem
    IN  /\ Resolved(j) =>
               \A k \in 1..calls[j].rows :
                   LET r == ItemRows(j)[k]
                       M == EntriesNaming(r.Resource)
                   IN  r.CreatedBy
                           = IF M = {} THEN "Unknown"
                             ELSE Get(log.entries[FirstOf(M)].principalEmail,
                                      "Unknown")
        /\ Estimated(j) =>
               /\ creators = NoCreators
               /\ calls[j].rows = Len(fallback.rows)
               /\ \A k \in 1..calls[j].rows :
                      ItemRows(j)[k].CreatedBy = fallback.rows[k].CreatedBy

\* C19 witness: a row whose label differs in letter case from the resource
\* name of the entry got the entry's identity, next to a row no entry names
C19_Witness ==
    LET j == LastItem
    IN  /\ Resolved(j)
        /\ \E k, m \in 1..calls[j].rows :
               /\ ItemRows(j)[k].CreatedBy \in {"alice", "bob"}
               /\ \E i \in EntriesNaming(ItemRows(j)[k].Resource) :
                      ~Contains(log.entries[i].resourceName[1],
                                LastSegment(ItemRows(j)[k].Resource))
               /\ EntriesNaming(ItemRows(j)[m].Resource) = {}
               /\ ItemRows(j)[m].CreatedBy = "Unknown"

\* a fallback row went into the report with the creator it carried
FallbackRowKeptCreator ==
    LET j == LastItem
    IN  /\ Estimated(j)
        /\ ItemRows(j)[1].CreatedBy \in {"alice", "bob"}

\* a row with a path in its label was matched by the last segment
SegmentOfPathMatched ==
    LET j == LastItem
    IN  /\ Resolved(j)
        /\ \E k \in 1..calls[j].rows :
               /\ Contains(ItemRows(j)[k].Resource, <<"/">>)
               /\ EntriesNaming(ItemRows(j)[k].Resource) # {}

(***************************************************************************)
(* generate_report.py, after the top SKUs were saved and the logging       *)
(* client was created: the scan of the audit log per service and the       *)
(* aggregated report.  top_skus is top_skus_df, idx the position of the    *)
(* loop in unique_services_to_scan, all_results is all_data, log the       *)
(* answer to the last query and written the table of the report.  The      *)
(* First Created and Last Created columns are left out.                    *)
(***************************************************************************)
MaxPairs == 2        \* rows of top_skus_df
MaxReportLog == 2    \* entries in one audit-log answer of generate_report

\* top_skus_df["Service description"].unique().tolist()
RECURSIVE Unique(_)
Unique(s) ==
    IF s = <<>> THEN <<>>
    ELSE LET front == Unique(SubSeq(s, 1, Len(s) - 1))
             x == s[Len(s)]
         IN  IF \E i \in 1..Len(front) : front[i] = x THEN front
             ELSE Append(front, x)

unique_services_to_scan ==
    Unique([i \in 1..Len(top_skus) |-> top_skus[i].service])

\* the events fetch_logs_for_service returns for the answer env
RECURSIVE FetchData(_, _)
FetchData(human_service_name, entries) ==
    IF entries = <<>> THEN <<>>
    ELSE LET front == FetchData(human_service_name,
                                SubSeq(entries, 1, Len(entries) - 1))
             entry == entries[Len(entries)]
         IN  IF ~entry.payload_ok THEN front
             ELSE Append(front,
                         [Service |-> human_service_name,
                          ResourceName |-> Get(entry.resourceName,
                                               <<"Unknown">>),
                          CreatedBy |-> Get(entry.principalEmail, "Unknown")])

fetch_logs_for_service(human_service_name, env) ==
    IF ~HasApiMapping(human_service_name) THEN <<>>
    ELSE IF ~env.query_ok THEN <<>>
    ELSE FetchData(human_service_name, env.entries)

\* the rows pd.merge(..., how="inner") would give the row t of top_skus_df
MergeInner(t, creation) ==
    LET mine == SelectSeq(creation, LAMBDA ev : ev.Service = t.service)
    IN  [k \in 1..Len(mine) |->
            [service |-> t.service, sku |-> t.sku, cost |-> t.cost,
             ResourceName |-> Some(mine[k].ResourceName),
             CreatedBy |-> Some(mine[k].CreatedBy)]]

\* the rows pd.merge(..., how="left") gives the row t of top_skus_df; the
\* fields of creation_df are NaN, here Missing, in a row without event
Merge(t, creation) ==
    LET mine == SelectSeq(creation, LAMBDA ev : ev.Service = t.service)
    IN  IF mine = <<>>
        THEN <<[service |-> t.service, sku |-> t.sku, cost |-> t.cost,
                ResourceName |-> Missing, CreatedBy |-> Missing]>>
        ELSE [k \in 1..Len(mine) |->
                 [service |-> t.service, sku |-> t.sku, cost |-> t.cost,
                  ResourceName |-> Some(mine[k].ResourceName),
                  CreatedBy |-> Some(mine[k].CreatedBy)]]

RECURSIVE MergeAll(_, _)
MergeAll(top, creation) ==
    IF top = <<>> THEN <<>>
    ELSE Merge(Head(top), creation) \o MergeAll(Tail(top), creation)

\* x.value_counts().items(): the creators of the rows with their counts;
\* NaN is not counted
ValueCounts(rows) ==
    LET seen == Unique([k \in 1..Len(rows) |-> rows[k].CreatedBy])
        named == SelectSeq(seen, LAMBDA c : c # Missing)
    IN  SortedDesc([k \in 1..Len(named) |->
                       <<named[k][1],
                         Cardinality({m \in 1..Len(rows) :
                                         rows[m].CreatedBy = named[k]})>>])

\* merged_df.groupby(["Service description", "SKU description",
\* "Cost ($)"]).agg(...): one row per key
Aggregate(merged) ==
    {[service |-> key[1], sku |-> key[2], cost |-> key[3],
      creators |-> ValueCounts(SelectSeq(merged,
                      LAMBDA r : <<r.service, r.sku, r.cost>> = key)),
      resources |-> Cardinality({m \in 1..Len(merged) :
                      /\ <<merged[m].service, merged[m].sku, merged[m].cost>>
                             = key
                      /\ merged[m].ResourceName # Missing})] :
        key \in {<<merged[m].service, merged[m].sku, merged[m].cost>> :
                    m \in 1..Len(merged)}}

\* the tables final_df.sort_values(by="Total Cost", ascending=False) can be
FinalDfs(top, creation) == SortValuesDesc(Aggregate(MergeAll(top, creation)))

ReportServices == {"Compute Engine", "BigQuery", "Other Service"}

TopSkuRows ==
    [service : ReportServices, sku : {<<"SKU", "1">>, <<"SKU", "2">>},
     cost : {100, 200}]

\* the frames analyze_billing_data returns: one row per (Service, SKU)
\* pair, in falling order of cost
TopSkusDfs(n) ==
    {df \in SeqsUpTo(TopSkuRows, n) :
        /\ df # <<>>
        /\ \A i, j \in 1..Len(df) :
               i # j => <<df[i].service, df[i].sku>>
                        # <<df[j].service, df[j].sku>>
        /\ \A i \in 1..(Len(df) - 1) : df[i].cost >= df[i + 1].cost}

ReportEntries ==
    {Entry(FALSE, Missing, Missing),
     Entry(TRUE, Some(<<"instances", "/", "a">>), Some("alice")),
     Entry(TRUE, Some(<<"instances", "/", "a">>), Some("bob")),
     Entry(TRUE, Missing, Missing)}

\* the answers of the audit log to the query of one service
ReportEnvs(n) ==
    {LogEnv(TRUE, FALSE, <<>>)}
    \cup {LogEnv(TRUE, TRUE, l) : l \in SeqsUpTo(ReportEntries, n)}

InitReport ==
    /\ top_skus \in TopSkusDfs(MaxPairs)
    /\ idx = 1
    /\ pc = "scan"
    /\ inv = NoInv
    /\ log = NoLog
    /\ breakdown = NoData
    /\ creators = NoCreators
    /\ fallback = NoFallback
    /\ all_results = <<>>
    /\ written = NotWritten
    /\ uncaught = "none"
    /\ calls = <<>>
    /\ cwd = {}
    /\ export = NoExport
    /\ run = NoRun

\* one pass of "for service_name in unique_services_to_scan"
FetchLogsForService ==
    /\ pc = "scan"
    /\ LET service_name == unique_services_to_scan[idx]
       IN  \E env \in IF HasApiMapping(service_name)
                      THEN ReportEnvs(MaxReportLog) ELSE {NoLog} :
               /\ log' = env
               /\ all_results' = all_results
                      \o fetch_logs_for_service(service_name, env)
    /\ idx' = idx + 1
    /\ pc' = IF idx = Len(unique_services_to_scan) THEN "aggregate"
             ELSE "scan"
    /\ UNCHANGED <<top_skus, inv, breakdown, creators, fallback, written,
                   uncaught, calls, cwd, export, run>>

\* "if not all_data": the top SKUs are the report
WriteTopSkusReport ==
    /\ pc = "aggregate"
    /\ all_results = <<>>
    /\ written' = [done |-> TRUE, rows |-> top_skus, persons |-> <<>>]
    /\ cwd' = WriteFiles(cwd,
                  {File(NoLogsReport,
                        [columns |-> ReportOutputColumns(NoLogsReport),
                         rows |-> WrittenRows(Len(top_skus))])})
    /\ pc' = "done"
    /\ UNCHANGED <<top_skus, idx, inv, log, breakdown, creators, fallback,
                   all_results, uncaught, calls, export, run>>

\* "else": merge, aggregate, sort and write the aggregated report
WriteAggregatedReport ==
    /\ pc = "aggregate"
    /\ all_results # <<>>
    /\ \E final_df \in FinalDfs(top_skus, all_results) :
           /\ written' = [done |-> TRUE, rows |-> final_df,
                          persons |-> <<>>]
           /\ cwd' = WriteFiles(cwd,
                         {File(n, [columns |-> ReportOutputColumns(n),
                                   rows |-> WrittenRows(Len(final_df))]) :
                             n \in SummaryFiles})
    /\ pc' = "done"
    /\ UNCHANGED <<top_skus, idx, inv, log, breakdown, creators, fallback,
                   all_results, uncaught, calls, export, run>>

NextReport ==
    \/ FetchLogsForService
    \/ WriteTopSkusReport
    \/ WriteAggregatedReport

SpecReport == InitReport /\ [][NextReport]_vars

(***************************************************************************)
(* Properties of the aggregated report.                                    *)
(***************************************************************************)
AggregatedReportWritten == pc = "done" /\ all_results # <<>>

\* the rows of the written table for a (Service, SKU) pair
RowsOfPair(service, sku) ==
    {k \in 1..Len(written.rows) :
        written.rows[k].service = service /\ written.rows[k].sku = sku}

\* C20: when at least one service produced an event, every (Service, SKU)
\* pair of the top SKUs is in the aggregated report exactly once, the pairs
\* of a service without event or without API mapping too, and no other row.
C20_EveryTopPairOnce ==
    AggregatedReportWritten =>
        /\ \A i \in 1..Len(top_skus) :
               LET ks == RowsOfPair(top_skus[i].service, top_skus[i].sku)
               IN  /\ Cardinality(ks) = 1
                   /\ \A k \in ks : written.rows[k].cost = top_skus[i].cost
        /\ Len(written.rows) = Len(top_skus)

\* C20 witness: an aggregated report with the pair of a service that
\* produced two events and the pair of a service that produced none
C20_Witness ==
    /\ AggregatedReportWritten
    /\ \E k \in 1..Len(written.rows) : written.rows[k].resources >= 2
    /\ \E k \in 1..Len(written.rows) :
           /\ written.rows[k].resources = 0
           /\ written.rows[k].creators = <<>>

\* a pair of a service without API mapping is in the aggregated report
UnmappedPairReported ==
    /\ AggregatedReportWritten
    /\ \E k \in 1..Len(written.rows) :
           ~HasApiMapping(written.rows[k].service)

(***************************************************************************)
(* Properties of the dispatch loop of main.                                *)
(***************************************************************************)
\* the Method values the adapters give their rows
AdapterMethods ==
    {"gcloud sql instances list (exact)",
     "gcloud compute instances list (exact)",
     "gcloud compute disks list (exact)",
     "gcloud app versions describe (exact)",
     "Cloud Monitoring: billable_instance_time (accurate)",
     "Cloud Monitoring: execution_count (accurate)",
     "gcloud ai endpoints list (exact: machine_type x replicas)"}

\* the pass of the loop for line item j has ended
Processed(j) == j < idx

\* the rows of line item j are the breakdown of its adapter
FromAdapter(j) ==
    /\ top_skus[j].service \in AdapterServices
    /\ calls[j].adapter = 1
    /\ calls[j].fallback = 0
    /\ \A k \in 1..calls[j].rows : ItemRows(j)[k].Method \in AdapterMethods

\* the rows of line item j are the estimate of get_fallback
FromFallback(j) ==
    /\ calls[j].fallback = 1
    /\ \A k \in 1..calls[j].rows :
           ItemRows(j)[k].Method = "Proportional Estimate (fallback)"

\* line item j has the "No data" row and no other
FromNoData(j) ==
    /\ calls[j].fallback = 1
    /\ calls[j].rows = 1
    /\ ItemRows(j)[1] = NoDataRow(top_skus[j])

\* the number of b's that are true
NumTrue(bs) == Cardinality({i \in DOMAIN bs : bs[i]})

\* C21: for every line item main has processed, the rows appended to
\* all_results come from exactly one of three sources (the adapter's
\* breakdown, the fallback estimate, the single "No data" row) and there is
\* at least one; the adapter is called at most once and the fallback at
\* most once per line item, and the rows of the line items are appended in
\* rank order.
C21_RowsFromOneSourceInRankOrder ==
    /\ \A j \in 1..Len(top_skus) :
           /\ calls[j].adapter <= 1
           /\ calls[j].fallback <= 1
           /\ calls[j].adapter = 1 => top_skus[j].service \in AdapterServices
           /\ j > idx => calls[j] = NoCalls
           /\ Processed(j) =>
                  /\ calls[j].rows >= 1
                  /\ NumTrue(<<FromAdapter(j), FromFallback(j),
                               FromNoData(j)>>) = 1
                  /\ \A k \in 1..calls[j].rows :
                         /\ ItemRows(j)[k].Service = top_skus[j].service
                         /\ ItemRows(j)[k].SKU = top_skus[j].sku
                         /\ ItemRows(j)[k].TotalCost = top_skus[j].cost
    /\ Len(all_results) =
           SumSeq([j \in 1..Len(top_skus) |->
                      IF Processed(j) THEN calls[j].rows ELSE 0])
    /\ \A k \in 1..(Len(all_results) - 1) :
           all_results[k].TotalCost >= all_results[k + 1].TotalCost

\* C21 witness: the run has ended, the first line item got the rows of its
\* adapter and the second, of another cost, the estimate of get_fallback
C21_Witness ==
    /\ pc = "done"
    /\ Len(top_skus) = 2
    /\ top_skus[1].cost > top_skus[2].cost
    /\ FromAdapter(1)
    /\ calls[1].rows = 2
    /\ FromFallback(2)
    /\ all_results = ItemRows(1) \o ItemRows(2)

\* a line item whose adapter was called and returned nothing, and whose
\* fallback found nothing, has the "No data" row
NoDataAfterAdapterAndFallback ==
    /\ pc = "done"
    /\ Len(top_skus) >= 1
    /\ calls[1].adapter = 1
    /\ FromNoData(1)

(***************************************************************************)
(* Properties of the weight total of the Cloud SQL, VM and Vertex AI       *)
(* adapters.                                                               *)
(***************************************************************************)
\* the call was the Cloud SQL, the VM or the Vertex AI adapter and it
\* returned a non-empty breakdown
WeightedCall ==
    /\ pc = "returned"
    /\ Item.service \in {"Cloud SQL", "Compute Engine", "Vertex AI"}
    /\ ~IsDiskSku(Item.sku)
    /\ Truthy(breakdown)

\* the entries of the adapter's dict that its second loop turns into rows
RowEntries ==
    CASE Item.service = "Cloud SQL" ->
             SelectSeq(SqlScan(inv.list, Item.sku)[2],
                       LAMBDA e : e[2].state = "RUNNABLE")
      [] Item.service = "Compute Engine" ->
             SelectSeq(VmScan(inv.list, Item.sku)[2],
                       LAMBDA e : e[2].status = "RUNNING")
      [] Item.service = "Vertex AI" ->
             VertexScan(Endpoints, Item.sku)[2]

\* the sum of the weights the rows' shares are computed from
RowWeightSum ==
    SumSeq([k \in 1..Len(RowEntries) |-> RowEntries[k][2].weight])

SharePcts(rows) == [i \in 1..Len(rows) |-> rows[i].SharePct]

\* C22: in the Cloud SQL, Compute VM and Vertex AI adapters the weight
\* total used as the denominator equals the sum of the weights of exactly
\* the entities that receive a row, for every inventory list, lists with
\* two entities of one name or label included; so the rows' Usage Share %
\* add up to 100 within rounding.
C22_WeightTotalIsSumOfRowWeights ==
    WeightedCall =>
        /\ Len(breakdown.rows) = Len(RowEntries)
        /\ breakdown.total_weight = RowWeightSum
        /\ 2 * Abs(SumSeq(SharePcts(breakdown.rows)) - 10000)
               <= Len(breakdown.rows)

\* the keys under which the adapter stores the entities in its dict, in
\* the order of the inventory
DictKeys ==
    IF Item.service = "Vertex AI"
    THEN LET kept == SelectSeq(Endpoints,
                         LAMBDA e : ReplicaWeight(e.ep, Item.sku) > 0)
         IN  [i \in 1..Len(kept) |-> EndpointKey(kept[i])]
    ELSE [i \in 1..Len(inv.list) |-> inv.list[i].name]

DistinctKeys == \A i, j \in 1..Len(DictKeys) : i # j => DictKeys[i] # DictKeys[j]

\* when no two entities of the inventory have the same dict key, the
\* weight total is the sum of the rows' weights and the shares add up to 100
WeightTotalIsSumWhenKeysDistinct ==
    (WeightedCall /\ DistinctKeys) =>
        /\ Len(breakdown.rows) = Len(RowEntries)
        /\ breakdown.total_weight = RowWeightSum
        /\ 2 * Abs(SumSeq(SharePcts(breakdown.rows)) - 10000)
               <= Len(breakdown.rows)

\* a list of two and more entities with distinct keys gave rows
DistinctKeysGaveRows ==
    /\ WeightedCall
    /\ DistinctKeys
    /\ Len(breakdown.rows) >= 2

\* two RUNNING VMs of one name in two zones: one row, with half the cost
SameNameVmsHalveTheShares ==
    /\ WeightedCall
    /\ Item.service = "Compute Engine"
    /\ Len(inv.list) = 2
    /\ inv.list[1].name = inv.list[2].name
    /\ inv.list[1].zone # inv.list[2].zone
    /\ VmActive(inv.list[1]) /\ VmActive(inv.list[2])
    /\ Len(breakdown.rows) = 1
    /\ breakdown.rows[1].SharePct = 5000

\* two Vertex AI endpoints of one display name, one region and the same
\* deployed models: one row, for a share under 100 %
SameKeyEndpointsShareOneRow ==
    /\ WeightedCall
    /\ Item.service = "Vertex AI"
    /\ ~DistinctKeys
    /\ Len(breakdown.rows) = 1
    /\ breakdown.rows[1].SharePct < 10000

====
